---- MODULE Spec2Model ----
(***************************************************************************)
(* Booking lifecycle and wallet ledger of the setuworks backend.           *)
(*                                                                         *)
(* Every HTTP request is a handler that runs on the Node event loop: the   *)
(* code between two awaits is one atomic step, and the steps of different  *)
(* requests interleave freely.  A request occupies one slot of `req` from  *)
(* its arrival to its response; `resp` is the response last sent.          *)
(* Documents are the MongoDB collections: `wallet` is User.wallet of the   *)
(* customers, `txns` the Transaction collection in insertion order,        *)
(* `bookings` the Booking collection, `workerContractor` User.contractor   *)
(* of the workers, `ratings` the Rating collection in insertion order,     *)
(* `averageRating` (in tenths) and `totalRatings` the rating fields of the *)
(* User documents, `jobs` the Job collection, `adminUsers` the User        *)
(* documents created by setup-admin in insertion order, `listing` the      *)
(* result of the last paginated booking query.                             *)
(***************************************************************************)
EXTENDS Integers, Sequences, FiniteSets, TLC

VARIABLES wallet, txns, nextTxnId, bookings, nextBookingId, workerContractor,
          clock, req, resp, ratings, averageRating, totalRatings,
          jobs, nextJobId, adminUsers, listing

vars == <<wallet, txns, nextTxnId, bookings, nextBookingId, workerContractor,
          clock, req, resp, ratings, averageRating, totalRatings,
          jobs, nextJobId, adminUsers, listing>>

\* The Rating collection and the rating fields of the User documents.
ratingVars == <<ratings, averageRating, totalRatings>>

\* The Job collection, the admin users and the last query result.
sideVars == <<jobs, nextJobId, adminUsers, listing>>

(***************************************************************************)
(* Bounds of the model.                                                    *)
(***************************************************************************)
MaxInFlight == 2
MaxTxns == 3
MaxBookings == 1
MaxClock == 2

(***************************************************************************)
(* The users of the system (User documents; role and status are fixed).    *)
(***************************************************************************)
Customers == {"c1", "c2"}
Workers == {"w1", "w2", "w3"}
Contractors == {"k1", "k2"}
Users == Customers \cup Workers \cup Contractors
NoUser == "none"

\* User.role: w1 and w3 are contractor-managed workers, w2 is independent.
role(u) ==
  IF u \in Customers THEN "customer"
  ELSE IF u \in Contractors THEN "contractor"
  ELSE IF u = "w2" THEN "independent_worker"
  ELSE "worker"

\* User.status: w3 has registered and still waits for approval.
userStatus(u) == IF u = "w3" THEN "pending" ELSE "approved"

\* User.findOne({ role: 'contractor' }): the first contractor in natural order.
FirstContractor == "k1"

Slots == 1..MaxInFlight

(***************************************************************************)
(* Transaction model (models/Transaction.js).                              *)
(***************************************************************************)
TxnTypes == {"recharge", "withdraw", "payment", "refund", "earning"}
TxnPaymentMethods == {"wallet", "cash", "upi", "bank_transfer", "card"}
CreditTypes == {"recharge", "earning", "refund"}
DebitTypes == {"withdraw", "payment"}

\* The balance check with the comparison off by one (<= for <).
Insufficient_OffByOne(type, balanceBefore, amount) ==
  type \in {"withdraw", "payment"} /\ balanceBefore - amount <= 0

\* The balance check left out.
Insufficient_NoCheck(type, balanceBefore, amount) == FALSE

\* The switch with the debit types adding the amount.
BalanceAfter_DebitAdds(type, balanceBefore, amount) ==
  IF type \in CreditTypes \cup DebitTypes THEN balanceBefore + amount
  ELSE balanceBefore

\* switch (transactionData.type): the new balance of a posting.
BalanceAfter(type, balanceBefore, amount) ==
  IF type \in CreditTypes THEN balanceBefore + amount
  ELSE IF type \in DebitTypes THEN balanceBefore - amount
  ELSE balanceBefore

\* if (balanceAfter < 0) throw new Error('Insufficient wallet balance')
Insufficient(type, balanceBefore, amount) ==
  type \in DebitTypes /\ BalanceAfter(type, balanceBefore, amount) < 0

\* Schema validation of a Transaction document at transaction.save().
TxnValid(t) ==
  /\ t.type \in TxnTypes
  /\ t.amount >= 0
  /\ t.paymentMethod \in TxnPaymentMethods


(***************************************************************************)
(* Requests in flight.  A slot holds the handler's position (pc) and its   *)
(* local variables; `wrote` is history: the stored fields that the request *)
(* has changed so far.                                                     *)
(***************************************************************************)
NoDoc == [status |-> "none"]

\* No paginated query has been answered yet.
NoListing == [op |-> "none", user |-> NoUser, page |-> 0, limit |-> 0, ids |-> <<>>, total |-> 0]

Idle ==
  [pc |-> "idle", op |-> "none", caller |-> NoUser, type |-> "none",
   amount |-> 0, pm |-> "none", balanceBefore |-> 0, balanceAfter |-> 0,
   txnId |-> 0, worker |-> NoUser, useWallet |-> FALSE, budget |-> 0,
   contractor |-> NoUser, bpm |-> "none",
   bid |-> 0, target |-> "none", reason |-> "", stamp |-> 0, doc |-> NoDoc,
   bstatus |-> "pending", hasRated |-> FALSE,
   rating |-> 0, review |-> "", sum |-> 0, n |-> 0, hookError |-> FALSE,
   wrote |-> {},
   assigned |-> NoDoc, phone |-> "", email |-> ""]

\* res.status(...).json(...): the response of request slot s.
Respond(s, op, err) ==
  /\ resp' = err
  /\ req' = [req EXCEPT ![s] = Idle]

\* Postings that have been or may still be constructed (bounds the log).
PostingsBegun == (nextTxnId - 1) + Cardinality({s \in Slots : req[s].pc = "ct_read"})

Init ==
  /\ wallet = [u \in Users |-> 0]
  /\ txns = <<>>
  /\ nextTxnId = 1
  /\ bookings = <<>>
  /\ nextBookingId = 1
  /\ workerContractor = [w \in Workers |-> IF w = "w1" THEN "k1" ELSE NoUser]
  /\ clock = 1
  /\ req = [s \in Slots |-> Idle]
  /\ resp = "none"
  /\ ratings = <<>>
  /\ averageRating = [u \in Users |-> 0]
  /\ totalRatings = [u \in Users |-> 0]
  /\ jobs = <<>>
  /\ nextJobId = 1
  /\ adminUsers = <<>>
  /\ listing = NoListing

\* Bookings that have been or may still be constructed (bounds the collection).
BookingsBegun ==
  (nextBookingId - 1)
    + Cardinality({s \in Slots : req[s].pc # "idle" /\ req[s].op \in {"create", "custCreate"}})

\* A request is admitted into the lowest free slot (slots are interchangeable).
Free(s) ==
  /\ req[s].pc = "idle"
  /\ \A t \in Slots : t < s => req[t].pc # "idle"

(***************************************************************************)
(* Request inputs.                                                         *)
(***************************************************************************)
RechargeAmounts == {-1, 0, 500}
WithdrawAmounts == {-1, 0, 1, 500}
RechargePmInputs == {"upi", "paypal"}
WithdrawPmInputs == {"bank_transfer", "paypal"}
WalletCallers == {"c1", "w1"}
MaxRecharge == 10000

\* The recharge route with the test amount <= 0 left out.
RechargeStart_NoAmountCheck(s, caller, amount, pm) ==
  /\ Free(s)
  /\ UNCHANGED <<wallet, txns, nextTxnId, bookings, nextBookingId, workerContractor, clock, ratingVars, sideVars>>
  /\ IF amount > MaxRecharge
        THEN Respond(s, "recharge", "ValidationError")
     ELSE IF role(caller) # "customer"
        THEN Respond(s, "recharge", "Forbidden")
     ELSE /\ PostingsBegun < MaxTxns
          /\ req' = [req EXCEPT ![s] = [Idle EXCEPT !.pc = "ct_read", !.op = "recharge",
                         !.caller = caller, !.type = "recharge", !.amount = amount, !.pm = pm]]
          /\ UNCHANGED resp

(***************************************************************************)
(* POST /api/auth/wallet/recharge (routes/auth.js).                        *)
(***************************************************************************)
RechargeStart(s, caller, amount, pm) ==
  /\ Free(s)
  /\ UNCHANGED <<wallet, txns, nextTxnId, bookings, nextBookingId, workerContractor, clock, ratingVars, sideVars>>
  /\ IF amount <= 0 \/ amount > MaxRecharge
        THEN Respond(s, "recharge", "ValidationError")
     ELSE IF role(caller) # "customer"
        THEN Respond(s, "recharge", "Forbidden")
     ELSE /\ PostingsBegun < MaxTxns
          /\ req' = [req EXCEPT ![s] = [Idle EXCEPT !.pc = "ct_read", !.op = "recharge",
                         !.caller = caller, !.type = "recharge", !.amount = amount, !.pm = pm]]
          /\ UNCHANGED resp

(***************************************************************************)
(* POST /api/auth/wallet/withdraw (routes/auth.js).                        *)
(***************************************************************************)
WithdrawStart(s, caller, amount, pm) ==
  /\ Free(s)
  /\ UNCHANGED <<wallet, txns, nextTxnId, bookings, nextBookingId, workerContractor, clock, ratingVars, sideVars>>
  /\ IF amount <= 0
        THEN Respond(s, "withdraw", "ValidationError")
     ELSE IF role(caller) # "customer"
        THEN Respond(s, "withdraw", "Forbidden")
     ELSE IF amount > wallet[caller]
        THEN Respond(s, "withdraw", "InsufficientBalance")
     ELSE /\ PostingsBegun < MaxTxns
          /\ req' = [req EXCEPT ![s] = [Idle EXCEPT !.pc = "ct_read", !.op = "withdraw",
                         !.caller = caller, !.type = "withdraw", !.amount = amount, !.pm = pm]]
          /\ UNCHANGED resp

(***************************************************************************)
(* Transaction.createTransaction (models/Transaction.js), one step per     *)
(* await: read the user and compute, save the user, save the transaction.  *)
(***************************************************************************)
\* new this({...transactionData, balanceBefore, balanceAfter})
TxnRow(r) ==
  [id |-> r.txnId, userId |-> r.caller, type |-> r.type, amount |-> r.amount,
   status |-> "completed", paymentMethod |-> r.pm,
   balanceBefore |-> r.balanceBefore, balanceAfter |-> r.balanceAfter]

\* createTransaction's first step with the refusal writing the balance down to
\* zero before it throws.
CtRead_WriteOnRefusal(s) ==
  LET r == req[s]
      before == wallet[r.caller]
  IN /\ r.pc = "ct_read"
     /\ UNCHANGED <<txns, bookings, nextBookingId, workerContractor, clock, ratingVars, sideVars>>
     /\ IF Insufficient(r.type, before, r.amount)
          THEN /\ Respond(s, r.op, "InsufficientBalance")
               /\ wallet' = [wallet EXCEPT ![r.caller] = 0]
               /\ UNCHANGED nextTxnId
          ELSE /\ req' = [req EXCEPT ![s] = [r EXCEPT !.pc = "ct_user_save",
                              !.balanceBefore = before,
                              !.balanceAfter = BalanceAfter(r.type, before, r.amount),
                              !.txnId = nextTxnId]]
               /\ nextTxnId' = nextTxnId + 1
               /\ UNCHANGED <<wallet, resp>>

\* await User.findById(userId); the switch; new this(...); user.wallet = balanceAfter
CtRead(s) ==
  LET r == req[s]
      before == wallet[r.caller]
  IN /\ r.pc = "ct_read"
     /\ UNCHANGED <<wallet, txns, bookings, nextBookingId, workerContractor, clock, ratingVars, sideVars>>
     /\ IF Insufficient(r.type, before, r.amount)
          THEN /\ Respond(s, r.op, "InsufficientBalance")
               /\ UNCHANGED nextTxnId
          ELSE /\ req' = [req EXCEPT ![s] = [r EXCEPT !.pc = "ct_user_save",
                              !.balanceBefore = before,
                              !.balanceAfter = BalanceAfter(r.type, before, r.amount),
                              !.txnId = nextTxnId]]
               /\ nextTxnId' = nextTxnId + 1
               /\ UNCHANGED resp

\* await user.save(): writes the modified path wallet, unconditionally.
CtSaveUser(s) ==
  LET r == req[s]
  IN /\ r.pc = "ct_user_save"
     /\ wallet' = IF r.balanceAfter # r.balanceBefore
                     THEN [wallet EXCEPT ![r.caller] = r.balanceAfter]
                     ELSE wallet
     /\ req' = [req EXCEPT ![s].pc = "ct_txn_save"]
     /\ UNCHANGED <<txns, nextTxnId, bookings, nextBookingId, workerContractor, clock, resp, ratingVars, sideVars>>

\* transaction.save() with the new row put in front of the log, so that the
\* rows stored before change their place.
CtSaveTxn_Prepend(s) ==
  LET r == req[s]
  IN /\ r.pc = "ct_txn_save"
     /\ UNCHANGED <<wallet, nextTxnId, bookings, nextBookingId, workerContractor, clock, ratingVars, sideVars>>
     /\ IF ~TxnValid(TxnRow(r))
          THEN /\ Respond(s, r.op, "ServerError")
               /\ UNCHANGED txns
          ELSE /\ txns' = <<TxnRow(r)>> \o txns
               /\ IF r.op = "create"
                    THEN /\ req' = [req EXCEPT ![s].pc = "bk_save"]
                         /\ UNCHANGED resp
                    ELSE Respond(s, r.op, "ok")

\* await transaction.save(): validates the row and inserts it; then the caller goes on.
CtSaveTxn(s) ==
  LET r == req[s]
  IN /\ r.pc = "ct_txn_save"
     /\ UNCHANGED <<wallet, nextTxnId, bookings, nextBookingId, workerContractor, clock, ratingVars, sideVars>>
     /\ IF ~TxnValid(TxnRow(r))
          THEN /\ Respond(s, r.op, "ServerError")
               /\ UNCHANGED txns
          ELSE /\ txns' = Append(txns, TxnRow(r))
               /\ IF r.op = "create"
                    THEN /\ req' = [req EXCEPT ![s].pc = "bk_save"]
                         /\ UNCHANGED resp
                    ELSE Respond(s, r.op, "ok")

(***************************************************************************)
(* Booking model (models/Booking.js).  A date is a clock value, 0 is null; *)
(* NoUser is a null reference; walletTransactionId 0 is null; budget 0 is  *)
(* null.                                                                   *)
(***************************************************************************)
BookingStatuses ==
  {"pending", "accepted", "confirmed", "in_progress", "completed", "cancelled", "rejected"}
BookingPaymentMethods == {"cash", "online", "upi", "cheque", "other"}

\* new Booking({...}) with the schema defaults.
NewBooking(customerId, workerId, contractorId, status, budget, useWallet, walletTransactionId) ==
  [customerId |-> customerId, workerId |-> workerId, contractorId |-> contractorId,
   status |-> status, budget |-> budget, useWallet |-> useWallet,
   walletTransactionId |-> walletTransactionId,
   acceptedAt |-> 0, confirmedAt |-> 0, startedAt |-> 0, completedAt |-> 0,
   cancelledAt |-> 0, rejectedAt |-> 0, rejectedReason |-> "", hasRated |-> FALSE]

\* Schema validation of a new Booking document at save().
BookingValid(d, paymentMethod) ==
  /\ d.customerId \in Users
  /\ d.workerId # NoUser
  /\ d.status \in BookingStatuses
  /\ d.budget >= 0
  /\ paymentMethod \in BookingPaymentMethods

\* bookingSchema.pre('save'): the contractor of a new booking that has none.
ResolvedContractor(d) ==
  IF d.contractorId # NoUser THEN d.contractorId
  ELSE IF d.workerId \in Workers /\ workerContractor[d.workerId] # NoUser
    THEN workerContractor[d.workerId]
  ELSE IF d.workerId \in Workers /\ role(d.workerId) = "worker"
    THEN FirstContractor
  ELSE NoUser

\* bookingSchema.pre('save'): the fallback also writes the contractor onto the worker.
WorkerContractorAfterSave(d) ==
  IF /\ d.contractorId = NoUser
     /\ d.workerId \in Workers
     /\ workerContractor[d.workerId] = NoUser
     /\ role(d.workerId) = "worker"
  THEN [workerContractor EXCEPT ![d.workerId] = FirstContractor]
  ELSE workerContractor

\* await booking.save() of a new document: validation, the pre-save hook, the insert.
InsertBooking(d) ==
  /\ bookings' = bookings @@ (nextBookingId :> [d EXCEPT !.contractorId = ResolvedContractor(d)])
  /\ nextBookingId' = nextBookingId + 1
  /\ workerContractor' = WorkerContractorAfterSave(d)

(***************************************************************************)
(* POST /api/auth/bookings (routes/auth.js).                               *)
(***************************************************************************)
RequiredFields == {"workerId", "customerId", "workType", "location", "startDate"}
BudgetInputs == {-1, 0, 1, 500}
BookingPmInputs == {"upi", "card"}
WorkerIdInputs == Workers \cup {"w9"}

\* Request bodies that ask for wallet payment, and one body for each missing
\* required field.
WalletCreateBodies ==
  [missing : {"none"}, customerId : Customers, workerId : {"w1", "w3", "w9"},
   useWallet : {TRUE}, budget : BudgetInputs, pm : BookingPmInputs]
  \cup
  [missing : RequiredFields, customerId : {"c1"}, workerId : {"w1"},
   useWallet : {TRUE}, budget : {1}, pm : {"upi"}]

\* Request bodies that do not ask for wallet payment.
PlainCreateBodies ==
  [missing : {"none"}, customerId : Customers, workerId : WorkerIdInputs,
   useWallet : {FALSE}, budget : {0}, pm : BookingPmInputs]

CreateCallers == {"c1", "w1"}

CreateStart(s, caller, body) ==
  /\ Free(s)
  /\ UNCHANGED <<wallet, txns, nextTxnId, bookings, nextBookingId, workerContractor, clock, ratingVars, sideVars>>
  /\ IF body.missing # "none"
        THEN Respond(s, "create", "ValidationError")
     ELSE IF body.useWallet /\ body.budget <= 0
        THEN Respond(s, "create", "ValidationError")
     ELSE IF body.useWallet /\ body.budget > 0 /\ body.budget > wallet[caller]
        THEN Respond(s, "create", "InsufficientBalance")
     ELSE IF role(caller) # "customer"
        THEN Respond(s, "create", "Forbidden")
     ELSE IF body.customerId # caller
        THEN Respond(s, "create", "Forbidden")
     ELSE IF body.workerId \notin Workers
        THEN Respond(s, "create", "NotFound")
     ELSE IF userStatus(body.workerId) # "approved"
        THEN Respond(s, "create", "ValidationError")
     ELSE /\ BookingsBegun < MaxBookings
          /\ body.useWallet => PostingsBegun < MaxTxns
          /\ req' = [req EXCEPT ![s] = [Idle EXCEPT
                         !.pc = IF body.useWallet THEN "ct_read" ELSE "bk_save",
                         !.op = "create", !.caller = caller,
                         !.type = "payment", !.amount = body.budget, !.pm = "wallet",
                         !.worker = body.workerId, !.useWallet = body.useWallet,
                         !.budget = body.budget, !.bpm = body.pm,
                         !.contractor = workerContractor[body.workerId]]]
          /\ UNCHANGED resp

\* const booking = new Booking({...}); await booking.save(); the response.
CreateSave(s) ==
  LET r == req[s]
      d == [NewBooking(r.caller, r.worker, r.contractor, r.bstatus, r.budget,
                       r.useWallet, r.txnId) EXCEPT !.hasRated = r.hasRated]
  IN /\ r.pc = "bk_save"
     /\ UNCHANGED <<wallet, txns, nextTxnId, clock, ratingVars, sideVars>>
     /\ IF BookingValid(d, r.bpm)
          THEN /\ InsertBooking(d)
               /\ Respond(s, r.op, "ok")
          ELSE /\ Respond(s, r.op, "ServerError")
               /\ UNCHANGED <<bookings, nextBookingId, workerContractor>>

(***************************************************************************)
(* POST /api/customer/bookings (routes/customer.js): the body is spread    *)
(* into the document, so status, hasRated, useWallet, budget and           *)
(* contractorId are taken from it when it has them; workerId "" is an      *)
(* absent workerId, contractorId NoUser an absent contractorId.            *)
(***************************************************************************)
\* Request bodies that leave status, hasRated, useWallet, budget and
\* contractorId to the schema defaults.
CustCreateBodies ==
  [workerId : WorkerIdInputs \cup {""}, pm : BookingPmInputs, status : {"pending"},
   hasRated : {FALSE}, useWallet : {FALSE}, budget : {0}, contractorId : {NoUser}]

\* Request bodies that set status or hasRated.
CustCreateStatusBodies ==
  [workerId : {"w1"}, pm : {"upi"}, status : {"pending", "completed"},
   hasRated : BOOLEAN, useWallet : {FALSE}, budget : {0}, contractorId : {NoUser}]

\* Request bodies that set useWallet or budget.
CustCreateWalletBodies ==
  [workerId : {"w1"}, pm : {"upi"}, status : {"pending"},
   hasRated : {FALSE}, useWallet : BOOLEAN, budget : {0, 500}, contractorId : {NoUser}]

\* Request bodies that name a worker of each kind and may set contractorId.
CustCreateContractorBodies ==
  [workerId : Workers, pm : {"upi"}, status : {"pending"},
   hasRated : {FALSE}, useWallet : {FALSE}, budget : {0}, contractorId : {NoUser, "k2"}]

BookingCallers == {"c1", "k1"}

CustCreateStart(s, caller, body) ==
  /\ Free(s)
  /\ UNCHANGED <<wallet, txns, nextTxnId, bookings, nextBookingId, workerContractor, clock, ratingVars, sideVars>>
  /\ IF role(caller) # "customer"
        THEN Respond(s, "custCreate", "Forbidden")
     ELSE IF body.workerId # "" /\ (body.workerId \notin Workers
                \/ role(body.workerId) \notin {"worker", "independent_worker"})
        THEN Respond(s, "custCreate", "ValidationError")
     ELSE /\ BookingsBegun < MaxBookings
          /\ req' = [req EXCEPT ![s] = [Idle EXCEPT !.pc = "bk_save", !.op = "custCreate",
                         !.caller = caller,
                         !.worker = IF body.workerId = "" THEN NoUser ELSE body.workerId,
                         !.bpm = body.pm, !.bstatus = body.status,
                         !.hasRated = body.hasRated, !.useWallet = body.useWallet,
                         !.budget = body.budget, !.contractor = body.contractorId]]
          /\ UNCHANGED resp

(***************************************************************************)
(* Updates of a loaded Booking document.  The handler loads the document,  *)
(* assigns fields and calls save(); save() writes the paths whose assigned *)
(* value differs from the loaded one, whatever the stored document now is. *)
(***************************************************************************)
\* new Date(): dates are clock values 1..MaxClock.
CanStamp == clock <= MaxClock

\* The assignments with the reject route's default reason left out.
Assigned_NoDefaultReason(r) ==
  LET d == r.doc
  IN CASE r.op = "accept" ->
            [d EXCEPT !.status = "accepted", !.acceptedAt = r.stamp]
       [] r.op = "reject" ->
            [d EXCEPT !.status = "rejected", !.rejectedAt = r.stamp,
                      !.rejectedReason = r.reason]
       [] r.op = "cancel" ->
            [d EXCEPT !.status = "cancelled", !.cancelledAt = r.stamp]
       [] r.op = "status" ->
            [d EXCEPT !.status = r.target,
                      !.acceptedAt = IF r.target = "accepted" /\ d.status # "accepted"
                                       THEN r.stamp ELSE @,
                      !.confirmedAt = IF r.target = "confirmed" /\ d.status # "confirmed"
                                        THEN r.stamp ELSE @,
                      !.startedAt = IF r.target = "in_progress" /\ d.status # "in_progress"
                                      THEN r.stamp ELSE @,
                      !.completedAt = IF r.target = "completed" /\ d.status # "completed"
                                        THEN r.stamp ELSE @,
                      !.cancelledAt = IF r.target = "cancelled" /\ d.status # "cancelled"
                                        THEN r.stamp ELSE @]
       [] r.op = "edit" ->
            [d EXCEPT !.budget = r.budget]
       [] OTHER -> d

\* The document of request r after the handler's assignments.
Assigned(r) ==
  LET d == r.doc
  IN CASE r.op = "accept" ->
            [d EXCEPT !.status = "accepted", !.acceptedAt = r.stamp]
       [] r.op = "reject" ->
            [d EXCEPT !.status = "rejected", !.rejectedAt = r.stamp,
                      !.rejectedReason = IF r.reason = "" THEN "No reason provided"
                                         ELSE r.reason]
       [] r.op = "cancel" ->
            [d EXCEPT !.status = "cancelled", !.cancelledAt = r.stamp]
       [] r.op = "status" ->
            [d EXCEPT !.status = r.target,
                      !.acceptedAt = IF r.target = "accepted" /\ d.status # "accepted"
                                       THEN r.stamp ELSE @,
                      !.confirmedAt = IF r.target = "confirmed" /\ d.status # "confirmed"
                                        THEN r.stamp ELSE @,
                      !.startedAt = IF r.target = "in_progress" /\ d.status # "in_progress"
                                      THEN r.stamp ELSE @,
                      !.completedAt = IF r.target = "completed" /\ d.status # "completed"
                                        THEN r.stamp ELSE @,
                      !.cancelledAt = IF r.target = "cancelled" /\ d.status # "cancelled"
                                        THEN r.stamp ELSE @]
       [] r.op = "edit" ->
            [d EXCEPT !.budget = r.budget]
       [] OTHER -> d

\* The stored document after save(): the modified paths are overwritten.
Merge(stored, loaded, assigned) ==
  [f \in DOMAIN stored |-> IF assigned[f] # loaded[f] THEN assigned[f] ELSE stored[f]]

\* The handler has loaded booking b and assigned; save() is issued.
BeginSave(s, op, caller, b, target, reason, stamps) ==
  /\ stamps => CanStamp
  /\ req' = [req EXCEPT ![s] = [Idle EXCEPT !.pc = "doc_save", !.op = op, !.caller = caller,
                 !.bid = b, !.target = target, !.reason = reason,
                 !.stamp = IF stamps THEN clock ELSE 0, !.doc = bookings[b]]]
  /\ clock' = IF stamps THEN clock + 1 ELSE clock
  /\ UNCHANGED resp

\* booking.save() of a loaded document that also credits the booking's budget
\* to the customer's wallet when the request is a cancel.
DocSave_RefundOnCancel(s) ==
  LET r == req[s]
      a == Assigned(r)
  IN /\ r.pc = "doc_save"
     /\ UNCHANGED <<txns, nextTxnId, nextBookingId, workerContractor, clock, ratingVars, sideVars>>
     /\ IF a.status \notin BookingStatuses \/ a.budget < 0
          THEN /\ Respond(s, r.op, "ServerError")
               /\ UNCHANGED <<bookings, wallet>>
        ELSE IF r.bid \notin DOMAIN bookings
          THEN /\ Respond(s, r.op, "ServerError")
               /\ UNCHANGED <<bookings, wallet>>
        ELSE /\ bookings' = [bookings EXCEPT ![r.bid] = Merge(@, r.doc, a)]
             /\ wallet' = IF r.op = "cancel"
                             THEN [wallet EXCEPT ![r.caller] = @ + r.doc.budget]
                             ELSE wallet
             /\ Respond(s, r.op, "ok")

\* await booking.save() of a loaded document.
DocSave(s) ==
  LET r == req[s]
      a == Assigned(r)
  IN /\ r.pc = "doc_save"
     /\ UNCHANGED <<wallet, txns, nextTxnId, nextBookingId, workerContractor, clock, ratingVars, sideVars>>
     /\ IF a.status \notin BookingStatuses \/ a.budget < 0
          THEN /\ Respond(s, r.op, "ServerError")
               /\ UNCHANGED bookings
        ELSE IF r.bid \notin DOMAIN bookings
          THEN /\ Respond(s, r.op, "ServerError")
               /\ UNCHANGED bookings
        ELSE /\ bookings' = [bookings EXCEPT ![r.bid] = Merge(@, r.doc, a)]
             /\ Respond(s, r.op, "ok")

BookingIds == 1..MaxBookings

(***************************************************************************)
(* PUT /api/contractor/:id/accept and /:id/reject (routes/contractor.js).  *)
(***************************************************************************)
ContractorCallers == {"k1", "k2", "c1"}
ReasonInputs == {"", "busy"}

AcceptStart(s, caller, b) ==
  /\ Free(s)
  /\ UNCHANGED <<wallet, txns, nextTxnId, bookings, nextBookingId, workerContractor, ratingVars, sideVars>>
  /\ IF role(caller) # "contractor"
        THEN Respond(s, "accept", "Forbidden") /\ UNCHANGED clock
     ELSE IF b \notin DOMAIN bookings
        THEN Respond(s, "accept", "NotFound") /\ UNCHANGED clock
     ELSE IF bookings[b].contractorId # NoUser /\ bookings[b].contractorId # caller
        THEN Respond(s, "accept", "Forbidden") /\ UNCHANGED clock
     ELSE BeginSave(s, "accept", caller, b, "none", "", TRUE)

RejectStart(s, caller, b, reason) ==
  /\ Free(s)
  /\ UNCHANGED <<wallet, txns, nextTxnId, bookings, nextBookingId, workerContractor, ratingVars, sideVars>>
  /\ IF role(caller) # "contractor"
        THEN Respond(s, "reject", "Forbidden") /\ UNCHANGED clock
     ELSE IF b \notin DOMAIN bookings
        THEN Respond(s, "reject", "NotFound") /\ UNCHANGED clock
     ELSE IF bookings[b].contractorId # NoUser /\ bookings[b].contractorId # caller
        THEN Respond(s, "reject", "Forbidden") /\ UNCHANGED clock
     ELSE BeginSave(s, "reject", caller, b, "none", reason, TRUE)

(***************************************************************************)
(* PUT /api/workers/jobs/:jobId/status (routes/workers.js).                *)
(***************************************************************************)
validStatuses == {"accepted", "confirmed", "assigned", "in_progress", "completed", "cancelled"}
StatusInputs == validStatuses \cup {"pending"}
WorkerCallers == {"w1", "w2"}

\* The handler stamps a date when the target differs from the loaded status.
StatusStamps(target, loaded) ==
  target \in {"accepted", "confirmed", "in_progress", "completed", "cancelled"}
    /\ target # loaded

\* The status route with the test of booking.workerId against the caller left out.
StatusStart_NoOwnerCheck(s, caller, b, target) ==
  /\ Free(s)
  /\ UNCHANGED <<wallet, txns, nextTxnId, bookings, nextBookingId, workerContractor, ratingVars, sideVars>>
  /\ IF target \notin validStatuses
        THEN Respond(s, "status", "ValidationError") /\ UNCHANGED clock
     ELSE IF b \notin DOMAIN bookings
        THEN Respond(s, "status", "NotFound") /\ UNCHANGED clock
     ELSE BeginSave(s, "status", caller, b, target, "",
                    StatusStamps(target, bookings[b].status))

StatusStart(s, caller, b, target) ==
  /\ Free(s)
  /\ UNCHANGED <<wallet, txns, nextTxnId, bookings, nextBookingId, workerContractor, ratingVars, sideVars>>
  /\ IF target \notin validStatuses
        THEN Respond(s, "status", "ValidationError") /\ UNCHANGED clock
     ELSE IF b \notin DOMAIN bookings
        THEN Respond(s, "status", "NotFound") /\ UNCHANGED clock
     ELSE IF bookings[b].workerId # caller
        THEN Respond(s, "status", "Forbidden") /\ UNCHANGED clock
     ELSE BeginSave(s, "status", caller, b, target, "",
                    StatusStamps(target, bookings[b].status))

(***************************************************************************)
(* PUT /api/customer/bookings/:id/cancel (routes/customer.js).             *)
(***************************************************************************)
CancelCallers == {"c1", "c2", "w1"}

CancelStart(s, caller, b) ==
  /\ Free(s)
  /\ UNCHANGED <<wallet, txns, nextTxnId, bookings, nextBookingId, workerContractor, ratingVars, sideVars>>
  /\ IF role(caller) # "customer"
        THEN Respond(s, "cancel", "Forbidden") /\ UNCHANGED clock
     ELSE IF b \notin DOMAIN bookings \/ bookings[b].customerId # caller
        THEN Respond(s, "cancel", "NotFound") /\ UNCHANGED clock
     ELSE IF bookings[b].status \in {"cancelled", "completed", "in_progress"}
        THEN Respond(s, "cancel", "InvalidTransition") /\ UNCHANGED clock
     ELSE BeginSave(s, "cancel", caller, b, "none", "", TRUE)

(***************************************************************************)
(* PUT /api/customer/bookings/:id (routes/customer.js): of the fields the  *)
(* customer may update, the budget.                                        *)
(***************************************************************************)
EditBudgetInputs == {1, 500}
EditCallers == {"c1", "c2"}

\* The edit route with the test of the booking's status left out.
EditStart_NoStatusCheck(s, caller, b, budget) ==
  /\ Free(s)
  /\ UNCHANGED <<wallet, txns, nextTxnId, bookings, nextBookingId, workerContractor, clock, ratingVars, sideVars>>
  /\ IF role(caller) # "customer"
        THEN Respond(s, "edit", "Forbidden")
     ELSE IF b \notin DOMAIN bookings \/ bookings[b].customerId # caller
        THEN Respond(s, "edit", "NotFound")
     ELSE /\ req' = [req EXCEPT ![s] = [Idle EXCEPT !.pc = "doc_save", !.op = "edit",
                         !.caller = caller, !.bid = b, !.budget = budget,
                         !.doc = bookings[b]]]
          /\ UNCHANGED resp

EditStart(s, caller, b, budget) ==
  /\ Free(s)
  /\ UNCHANGED <<wallet, txns, nextTxnId, bookings, nextBookingId, workerContractor, clock, ratingVars, sideVars>>
  /\ IF role(caller) # "customer"
        THEN Respond(s, "edit", "Forbidden")
     ELSE IF b \notin DOMAIN bookings \/ bookings[b].customerId # caller
        THEN Respond(s, "edit", "NotFound")
     ELSE IF bookings[b].status \in {"completed", "cancelled", "in_progress"}
        THEN Respond(s, "edit", "InvalidState")
     ELSE /\ req' = [req EXCEPT ![s] = [Idle EXCEPT !.pc = "doc_save", !.op = "edit",
                         !.caller = caller, !.bid = b, !.budget = budget,
                         !.doc = bookings[b]]]
          /\ UNCHANGED resp

(***************************************************************************)
(* The booking lifecycle: creation without wallet payment and the status   *)
(* changing operations.                                                    *)
(***************************************************************************)
NextBooking ==
  \/ \E s \in Slots, caller \in CreateCallers, body \in PlainCreateBodies :
        CreateStart(s, caller, body)
  \/ \E s \in Slots, caller \in BookingCallers, body \in CustCreateBodies :
        CustCreateStart(s, caller, body)
  \/ \E s \in Slots : CreateSave(s)
  \/ \E s \in Slots, caller \in ContractorCallers, b \in BookingIds :
        AcceptStart(s, caller, b)
  \/ \E s \in Slots, caller \in ContractorCallers, b \in BookingIds, reason \in ReasonInputs :
        RejectStart(s, caller, b, reason)
  \/ \E s \in Slots, caller \in WorkerCallers, b \in BookingIds, target \in StatusInputs :
        StatusStart(s, caller, b, target)
  \/ \E s \in Slots, caller \in CancelCallers, b \in BookingIds :
        CancelStart(s, caller, b)
  \/ \E s \in Slots : DocSave(s)

SpecBooking == Init /\ [][NextBooking]_vars

(***************************************************************************)
(* The ledger: wallet postings and wallet-paid booking creation.           *)
(***************************************************************************)
NextLedger ==
  \/ \E s \in Slots, caller \in WalletCallers, amount \in RechargeAmounts, pm \in RechargePmInputs :
        RechargeStart(s, caller, amount, pm)
  \/ \E s \in Slots, caller \in WalletCallers, amount \in WithdrawAmounts, pm \in WithdrawPmInputs :
        WithdrawStart(s, caller, amount, pm)
  \/ \E s \in Slots, caller \in CreateCallers, body \in WalletCreateBodies :
        CreateStart(s, caller, body)
  \/ \E s \in Slots : CtRead(s)
  \/ \E s \in Slots : CtSaveUser(s)
  \/ \E s \in Slots : CtSaveTxn(s)
  \/ \E s \in Slots : CreateSave(s)

SpecLedger == Init /\ [][NextLedger]_vars

(***************************************************************************)
(* Rating model (models/Rating.js).  A review is represented by its        *)
(* trimmed length, 0 for a missing review; a rating 0 is a missing rating. *)
(***************************************************************************)
MinRating == 1
MaxRating == 5
MinReview == 10
MaxReview == 1000

\* Index { bookingId: 1 } unique, without the uniqueness.
DuplicateKey_NoIndex(bookingId) == FALSE

\* ratingSchema.index({ bookingId: 1 }, { unique: true }): the insert of a second
\* Rating of one booking fails with the duplicate key error E11000.
DuplicateKey(bookingId) ==
  \E i \in 1..Len(ratings) : ratings[i].bookingId = bookingId

\* Rating.hasCustomerRatedBooking: findOne({ bookingId, customerId }).
hasCustomerRatedBooking(bookingId, customerId) ==
  \E i \in 1..Len(ratings) :
    ratings[i].bookingId = bookingId /\ ratings[i].customerId = customerId

\* Schema validation of a Rating document at save().
RatingValid(d) ==
  /\ d.rating >= MinRating /\ d.rating <= MaxRating
  /\ d.review >= MinReview /\ d.review <= MaxReview

\* Math.round(stats.averageRating * 10) / 10 of the mean sum / n, in tenths
\* (Math.round rounds a half up).
AvgTenths(sum, n) == (20 * sum + n) \div (2 * n)

RECURSIVE RatingSum(_, _)
\* $group over { $match: { workerId } }: the sum of the ratings of worker w
\* among the first k rows.
RatingSum(w, k) ==
  IF k = 0 THEN 0
  ELSE RatingSum(w, k - 1) + (IF ratings[k].workerId = w THEN ratings[k].rating ELSE 0)

\* The number of Rating rows of worker w.
RatingCount(w) == Cardinality({i \in 1..Len(ratings) : ratings[i].workerId = w})

(***************************************************************************)
(* POST /api/customer/ratings (routes/customer.js) and the pre-save hook   *)
(* of the Rating model, one step per await.                                *)
(***************************************************************************)
RatingCallers == {"c1", "c2", "w1"}
RatingBodies ==
  [bookingId : {1, 2}, workerId : {"w1", "w2"}, rating : {0, 4, 6},
   review : {5, 20, 1001}]

\* The checks on the booking found, with the check of its status left out.
RatingRefusal_NoStatusCheck(caller, b) ==
  IF b \notin DOMAIN bookings THEN "NotFound"
  ELSE IF bookings[b].customerId # caller THEN "Forbidden"
  ELSE "none"

\* The checks on the booking found by Booking.findById(bookingId).
RatingRefusal(caller, b) ==
  IF b \notin DOMAIN bookings THEN "NotFound"
  ELSE IF bookings[b].customerId # caller THEN "Forbidden"
  ELSE IF bookings[b].status # "completed" THEN "InvalidState"
  ELSE "none"

\* authorize, the validation of the body, Booking.findById and the checks on it.
RateStart(s, caller, body) ==
  /\ Free(s)
  /\ UNCHANGED <<wallet, txns, nextTxnId, bookings, nextBookingId, workerContractor, clock, ratingVars, sideVars>>
  /\ IF role(caller) # "customer"
        THEN Respond(s, "rate", "Forbidden")
     ELSE IF body.rating = 0 \/ body.review = 0
        THEN Respond(s, "rate", "ValidationError")
     ELSE IF body.rating < MinRating \/ body.rating > MaxRating
        THEN Respond(s, "rate", "ValidationError")
     ELSE IF body.review < MinReview
        THEN Respond(s, "rate", "ValidationError")
     ELSE IF RatingRefusal(caller, body.bookingId) # "none"
        THEN Respond(s, "rate", RatingRefusal(caller, body.bookingId))
     ELSE /\ req' = [req EXCEPT ![s] = [Idle EXCEPT !.pc = "rt_check", !.op = "rate",
                         !.caller = caller, !.bid = body.bookingId,
                         !.worker = body.workerId, !.rating = body.rating,
                         !.review = body.review, !.doc = bookings[body.bookingId]]]
          /\ UNCHANGED resp

\* new Rating({...})
RatingRow(r) ==
  [bookingId |-> r.bid, customerId |-> r.caller, workerId |-> r.worker,
   rating |-> r.rating, review |-> r.review]

\* await Rating.hasCustomerRatedBooking(...); new Rating; save() validates.
RateCheck(s) ==
  LET r == req[s]
  IN /\ r.pc = "rt_check"
     /\ UNCHANGED <<wallet, txns, nextTxnId, bookings, nextBookingId, workerContractor, clock, ratingVars, sideVars>>
     /\ IF hasCustomerRatedBooking(r.bid, r.caller)
          THEN Respond(s, r.op, "DuplicateRating")
        ELSE IF ~RatingValid(RatingRow(r))
          THEN Respond(s, r.op, "ServerError")
        ELSE /\ req' = [req EXCEPT ![s].pc = "rt_aggregate"]
             /\ UNCHANGED resp

\* The hook's catch: the error is logged and save() goes on to the insert.
HookCatch(s) ==
  req' = [req EXCEPT ![s] = [@ EXCEPT !.pc = "rt_insert", !.hookError = TRUE]]

\* pre('save'): await Rating.aggregate([...]) over the rows stored now.
RateAggregate(s, fails) ==
  LET r == req[s]
      n == RatingCount(r.worker)
  IN /\ r.pc = "rt_aggregate"
     /\ UNCHANGED <<wallet, txns, nextTxnId, bookings, nextBookingId, workerContractor, clock, resp, ratingVars, sideVars>>
     /\ IF fails THEN HookCatch(s)
        ELSE req' = [req EXCEPT ![s] = [r EXCEPT
                        !.pc = IF n > 0 THEN "rt_user" ELSE "rt_booking",
                        !.sum = RatingSum(r.worker, Len(ratings)), !.n = n]]

\* pre('save'): await User.findByIdAndUpdate(workerId, { averageRating, totalRatings }).
RateUserUpdate(s, fails) ==
  LET r == req[s]
  IN /\ r.pc = "rt_user"
     /\ UNCHANGED <<wallet, txns, nextTxnId, bookings, nextBookingId, workerContractor, clock, resp, ratings, sideVars>>
     /\ IF fails
          THEN /\ HookCatch(s)
               /\ UNCHANGED <<averageRating, totalRatings>>
          ELSE /\ averageRating' = [averageRating EXCEPT ![r.worker] = AvgTenths(r.sum, r.n)]
               /\ totalRatings' = [totalRatings EXCEPT ![r.worker] = r.n]
               /\ req' = [req EXCEPT ![s] = [r EXCEPT !.pc = "rt_booking",
                              !.wrote = IF averageRating[r.worker] # AvgTenths(r.sum, r.n)
                                           \/ totalRatings[r.worker] # r.n
                                          THEN @ \cup {"aggregate"} ELSE @]]

\* pre('save'): await Booking.findByIdAndUpdate(bookingId, { hasRated: true, ... }).
RateBookingUpdate(s, fails) ==
  LET r == req[s]
  IN /\ r.pc = "rt_booking"
     /\ UNCHANGED <<wallet, txns, nextTxnId, nextBookingId, workerContractor, clock, resp, ratingVars, sideVars>>
     /\ IF fails
          THEN /\ HookCatch(s)
               /\ UNCHANGED bookings
          ELSE /\ bookings' = IF r.bid \in DOMAIN bookings
                                THEN [bookings EXCEPT ![r.bid].hasRated = TRUE]
                                ELSE bookings
               /\ req' = [req EXCEPT ![s] = [r EXCEPT !.pc = "rt_insert",
                              !.wrote = IF r.bid \in DOMAIN bookings /\ ~bookings[r.bid].hasRated
                                          THEN @ \cup {"hasRated"} ELSE @]]

\* The insert of newRating.save() and the response of the route.
RateInsert(s) ==
  LET r == req[s]
  IN /\ r.pc = "rt_insert"
     /\ UNCHANGED <<wallet, txns, nextTxnId, bookings, nextBookingId, workerContractor, clock,
                    averageRating, totalRatings, sideVars>>
     /\ IF DuplicateKey(r.bid)
          THEN /\ Respond(s, r.op, "DuplicateRating")
               /\ UNCHANGED ratings
          ELSE /\ ratings' = Append(ratings, RatingRow(r))
               /\ Respond(s, r.op, "ok")

(***************************************************************************)
(* Ratings: bookings created by the customer route, completed or cancelled *)
(* by their worker, and rated.                                             *)
(***************************************************************************)
RatingStatusInputs == {"completed", "cancelled"}

NextRating ==
  \/ \E s \in Slots, caller \in BookingCallers, body \in CustCreateStatusBodies :
        CustCreateStart(s, caller, body)
  \/ \E s \in Slots : CreateSave(s)
  \/ \E s \in Slots, caller \in WorkerCallers, b \in BookingIds, target \in RatingStatusInputs :
        StatusStart(s, caller, b, target)
  \/ \E s \in Slots : DocSave(s)
  \/ \E s \in Slots, caller \in RatingCallers, body \in RatingBodies :
        RateStart(s, caller, body)
  \/ \E s \in Slots : RateCheck(s)
  \/ \E s \in Slots, fails \in BOOLEAN : RateAggregate(s, fails)
  \/ \E s \in Slots, fails \in BOOLEAN : RateUserUpdate(s, fails)
  \/ \E s \in Slots, fails \in BOOLEAN : RateBookingUpdate(s, fails)
  \/ \E s \in Slots : RateInsert(s)

SpecRating == Init /\ [][NextRating]_vars

(***************************************************************************)
(* Wallet-paid bookings: the ledger, bookings created by the customer      *)
(* route and the customer's edits.                                         *)
(***************************************************************************)
\* One customer who recharges 500 and books a worker for 500 from the wallet.
PayingCustomers == {"c1"}
FundingAmounts == {500}
FundingPmInputs == {"upi"}
PaidCreateBodies ==
  [missing : {"none"}, customerId : {"c1"}, workerId : {"w1"},
   useWallet : {TRUE}, budget : {500}, pm : {"upi"}]

NextWalletBooking ==
  \/ \E s \in Slots, caller \in PayingCustomers, amount \in FundingAmounts, pm \in FundingPmInputs :
        RechargeStart(s, caller, amount, pm)
  \/ \E s \in Slots, caller \in PayingCustomers, body \in PaidCreateBodies :
        CreateStart(s, caller, body)
  \/ \E s \in Slots : CtRead(s)
  \/ \E s \in Slots : CtSaveUser(s)
  \/ \E s \in Slots : CtSaveTxn(s)
  \/ \E s \in Slots : CreateSave(s)
  \/ \E s \in Slots, caller \in BookingCallers, body \in CustCreateWalletBodies :
        CustCreateStart(s, caller, body)
  \/ \E s \in Slots, caller \in EditCallers, b \in BookingIds, budget \in EditBudgetInputs :
        EditStart(s, caller, b, budget)
  \/ \E s \in Slots : DocSave(s)

SpecWalletBooking == Init /\ [][NextWalletBooking]_vars

(***************************************************************************)
(* DELETE /api/contractor/job-requests/:requestId (routes/contractor.js):  *)
(* the handler loads the booking and checks it, then deletes it by id in a *)
(* second query.  Request id 0 is an id that is not a valid ObjectId.      *)
(***************************************************************************)
deletableStatuses == {"pending", "rejected", "cancelled"}
DeleteIds == BookingIds \cup {0}
DeleteCallers == {"k1", "k2", "c1"}

\* authorize, the id format, Booking.findById and the checks on the document found.
DeleteStart(s, caller, b) ==
  /\ Free(s)
  /\ UNCHANGED <<wallet, txns, nextTxnId, bookings, nextBookingId, workerContractor, clock, ratingVars, sideVars>>
  /\ IF role(caller) # "contractor"
        THEN Respond(s, "delete", "Forbidden")
     ELSE IF b = 0
        THEN Respond(s, "delete", "ValidationError")
     ELSE IF b \notin DOMAIN bookings
        THEN Respond(s, "delete", "NotFound")
     ELSE IF bookings[b].contractorId # NoUser /\ bookings[b].contractorId # caller
        THEN Respond(s, "delete", "Forbidden")
     ELSE IF bookings[b].status \notin deletableStatuses
        THEN Respond(s, "delete", "InvalidState")
     ELSE /\ req' = [req EXCEPT ![s] = [Idle EXCEPT !.pc = "bk_delete", !.op = "delete",
                         !.caller = caller, !.bid = b, !.doc = bookings[b]]]
          /\ UNCHANGED resp

\* await Booking.findByIdAndDelete(requestId) and the response.
DeleteDo(s) ==
  LET r == req[s]
  IN /\ r.pc = "bk_delete"
     /\ bookings' = [b \in DOMAIN bookings \ {r.bid} |-> bookings[b]]
     /\ Respond(s, r.op, "ok")
     /\ UNCHANGED <<wallet, txns, nextTxnId, nextBookingId, workerContractor, clock, ratingVars, sideVars>>

(***************************************************************************)
(* The contractor's requests: bookings created by either route, for a      *)
(* worker of each kind, accepted, rejected and deleted by contractors.     *)
(***************************************************************************)
NextContractor ==
  \/ \E s \in Slots, caller \in CreateCallers, body \in PlainCreateBodies :
        CreateStart(s, caller, body)
  \/ \E s \in Slots, caller \in BookingCallers, body \in CustCreateContractorBodies :
        CustCreateStart(s, caller, body)
  \/ \E s \in Slots : CreateSave(s)
  \/ \E s \in Slots, caller \in ContractorCallers, b \in BookingIds :
        AcceptStart(s, caller, b)
  \/ \E s \in Slots, caller \in ContractorCallers, b \in BookingIds, reason \in ReasonInputs :
        RejectStart(s, caller, b, reason)
  \/ \E s \in Slots : DocSave(s)
  \/ \E s \in Slots, caller \in DeleteCallers, b \in DeleteIds :
        DeleteStart(s, caller, b)
  \/ \E s \in Slots : DeleteDo(s)

SpecContractor == Init /\ [][NextContractor]_vars

(***************************************************************************)
(* Every operation on a booking next to the ledger: one customer who       *)
(* recharges, books a worker, edits, cancels and rates the booking; the    *)
(* worker's status updates; the contractor's accept, reject and delete.    *)
(***************************************************************************)
OpsBookingBodies ==
  [workerId : {"w1"}, pm : {"upi"}, status : {"pending"},
   hasRated : {FALSE}, useWallet : {FALSE}, budget : {0}, contractorId : {NoUser}]
OpsRatingBodies == [bookingId : {1}, workerId : {"w1"}, rating : {4}, review : {20}]
OpsStatusInputs == {"completed"}
OpsContractors == {"k1"}
OpsWorkers == {"w1"}
OpsReasonInputs == {""}
OpsBudgetInputs == {500}
OpsFaults == {FALSE}

NextOperations ==
  \/ \E s \in Slots, caller \in PayingCustomers, amount \in FundingAmounts, pm \in FundingPmInputs :
        RechargeStart(s, caller, amount, pm)
  \/ \E s \in Slots : CtRead(s)
  \/ \E s \in Slots : CtSaveUser(s)
  \/ \E s \in Slots : CtSaveTxn(s)
  \/ \E s \in Slots, caller \in PayingCustomers, body \in OpsBookingBodies :
        CustCreateStart(s, caller, body)
  \/ \E s \in Slots : CreateSave(s)
  \/ \E s \in Slots, caller \in OpsContractors, b \in BookingIds :
        AcceptStart(s, caller, b)
  \/ \E s \in Slots, caller \in OpsContractors, b \in BookingIds, reason \in OpsReasonInputs :
        RejectStart(s, caller, b, reason)
  \/ \E s \in Slots, caller \in OpsWorkers, b \in BookingIds, target \in OpsStatusInputs :
        StatusStart(s, caller, b, target)
  \/ \E s \in Slots, caller \in PayingCustomers, b \in BookingIds :
        CancelStart(s, caller, b)
  \/ \E s \in Slots, caller \in PayingCustomers, b \in BookingIds, budget \in OpsBudgetInputs :
        EditStart(s, caller, b, budget)
  \/ \E s \in Slots : DocSave(s)
  \/ \E s \in Slots, caller \in OpsContractors, b \in BookingIds :
        DeleteStart(s, caller, b)
  \/ \E s \in Slots : DeleteDo(s)
  \/ \E s \in Slots, caller \in PayingCustomers, body \in OpsRatingBodies :
        RateStart(s, caller, body)
  \/ \E s \in Slots : RateCheck(s)
  \/ \E s \in Slots, fails \in OpsFaults : RateAggregate(s, fails)
  \/ \E s \in Slots, fails \in OpsFaults : RateUserUpdate(s, fails)
  \/ \E s \in Slots, fails \in OpsFaults : RateBookingUpdate(s, fails)
  \/ \E s \in Slots : RateInsert(s)

SpecOperations == Init /\ [][NextOperations]_vars

(***************************************************************************)
(* The customer's edits next to the operations that change the status of   *)
(* the booking: creation by the customer route, the worker's status        *)
(* updates, the customer's cancel.                                         *)
(***************************************************************************)
EditStatusInputs == {"accepted", "in_progress", "completed"}
EditWorkers == {"w1"}

NextEdit ==
  \/ \E s \in Slots, caller \in BookingCallers, body \in CustCreateWalletBodies :
        CustCreateStart(s, caller, body)
  \/ \E s \in Slots : CreateSave(s)
  \/ \E s \in Slots, caller \in EditWorkers, b \in BookingIds, target \in EditStatusInputs :
        StatusStart(s, caller, b, target)
  \/ \E s \in Slots, caller \in CancelCallers, b \in BookingIds :
        CancelStart(s, caller, b)
  \/ \E s \in Slots, caller \in EditCallers, b \in BookingIds, budget \in EditBudgetInputs :
        EditStart(s, caller, b, budget)
  \/ \E s \in Slots : DocSave(s)

SpecEdit == Init /\ [][NextEdit]_vars

(***************************************************************************)
(* The contractors' rejections with two bookings in the collection: the    *)
(* customer c1 has booked the managed worker w1 (contractor k1) and the    *)
(* independent worker w2, both bookings are pending.                       *)
(***************************************************************************)
TwoBookings ==
  <<NewBooking("c1", "w1", "k1", "pending", 0, FALSE, 0),
    NewBooking("c1", "w2", NoUser, "pending", 0, FALSE, 0)>>

InitRejects ==
  /\ wallet = [u \in Users |-> 0]
  /\ txns = <<>>
  /\ nextTxnId = 1
  /\ bookings = TwoBookings
  /\ nextBookingId = Len(TwoBookings) + 1
  /\ workerContractor = [w \in Workers |-> IF w = "w1" THEN "k1" ELSE NoUser]
  /\ clock = 1
  /\ req = [s \in Slots |-> Idle]
  /\ resp = "none"
  /\ ratings = <<>>
  /\ averageRating = [u \in Users |-> 0]
  /\ totalRatings = [u \in Users |-> 0]
  /\ jobs = <<>>
  /\ nextJobId = 1
  /\ adminUsers = <<>>
  /\ listing = NoListing

RejectIds == 1..Len(TwoBookings)
RejectCustomers == {"c1"}

NextRejects ==
  \/ \E s \in Slots, caller \in ContractorCallers, b \in RejectIds :
        AcceptStart(s, caller, b)
  \/ \E s \in Slots, caller \in ContractorCallers, b \in RejectIds, reason \in ReasonInputs :
        RejectStart(s, caller, b, reason)
  \/ \E s \in Slots, caller \in RejectCustomers, b \in RejectIds :
        CancelStart(s, caller, b)
  \/ \E s \in Slots : DocSave(s)

SpecRejects == InitRejects /\ [][NextRejects]_vars

(***************************************************************************)
(* Job model (models/Job.js) and the job routes (routes/jobs.js).  A price *)
(* 0 is an absent price, a rating 0 an absent rating, a date 0 no date.    *)
(* Prices are multiples of 10, so that the commission is a whole number.   *)
(***************************************************************************)
MaxJobs == 1
JobStatuses == {"pending", "assigned", "in_progress", "completed", "cancelled"}
NoPrice == 0
DefaultCommissionPercentage == 10

\* new Job({...}) with the schema defaults.
NewJob(customer, estimatedPrice) ==
  [customer |-> customer, contractor |-> NoUser, worker |-> NoUser,
   independentWorker |-> NoUser, status |-> "pending",
   estimatedPrice |-> estimatedPrice, finalPrice |-> NoPrice,
   paymentStatus |-> "pending",
   commissionPercentage |-> DefaultCommissionPercentage, commissionAmount |-> 0,
   completedDate |-> 0, rating |-> 0]

\* jobSchema.pre('save'): the commission of document d.
Commission(d) ==
  IF d.finalPrice # NoPrice /\ d.commissionAmount = 0
    THEN (d.finalPrice * d.commissionPercentage) \div 100
    ELSE d.commissionAmount

JobIds == 1..MaxJobs
JobCustomers == {"c1", "k1"}
EstimatedPriceInputs == {0, 100}

\* POST /api/jobs: authorize, the required fields, new Job and job.save().
JobCreate(s, caller, estimatedPrice) ==
  /\ Free(s)
  /\ UNCHANGED <<wallet, txns, nextTxnId, bookings, nextBookingId, workerContractor, clock,
                 ratingVars, adminUsers, listing>>
  /\ IF role(caller) # "customer"
        THEN Respond(s, "jobCreate", "Forbidden") /\ UNCHANGED <<jobs, nextJobId>>
     ELSE IF estimatedPrice = NoPrice
        THEN Respond(s, "jobCreate", "ValidationError") /\ UNCHANGED <<jobs, nextJobId>>
     ELSE /\ nextJobId <= MaxJobs
          /\ jobs' = jobs @@ (nextJobId :> [NewJob(caller, estimatedPrice) EXCEPT
                                                !.commissionAmount = Commission(NewJob(caller, estimatedPrice))])
          /\ nextJobId' = nextJobId + 1
          /\ Respond(s, "jobCreate", "ok")

\* The handler has loaded job j and made its assignments; job.save() is issued.
JobBeginSave(s, op, caller, j, assigned) ==
  /\ req' = [req EXCEPT ![s] = [Idle EXCEPT !.pc = "job_save", !.op = op, !.caller = caller,
                 !.bid = j, !.doc = jobs[j], !.assigned = assigned]]
  /\ UNCHANGED resp

\* await job.save() of a loaded document: the pre-save hook, then the
\* modified paths are written.
JobSave(s) ==
  LET r == req[s]
      h == [r.assigned EXCEPT !.commissionAmount = Commission(r.assigned)]
  IN /\ r.pc = "job_save"
     /\ jobs' = [jobs EXCEPT ![r.bid] = Merge(@, r.doc, h)]
     /\ Respond(s, r.op, "ok")
     /\ UNCHANGED <<wallet, txns, nextTxnId, bookings, nextBookingId, workerContractor, clock,
                    ratingVars, nextJobId, adminUsers, listing>>

AssignCallers == {"k1", "c1"}
AssignToInputs == {"k1", "w9", NoUser}
AssignTypeInputs == {"contractor", "independent_worker"}

\* PUT /api/jobs/:id/assign
JobAssignStart(s, caller, j, assignedTo, assignedType) ==
  /\ Free(s)
  /\ UNCHANGED <<wallet, txns, nextTxnId, bookings, nextBookingId, workerContractor, clock,
                 ratingVars, sideVars>>
  /\ IF role(caller) \notin {"contractor", "worker", "independent_worker", "admin"}
        THEN Respond(s, "jobAssign", "Forbidden")
     ELSE IF assignedTo = NoUser
        THEN Respond(s, "jobAssign", "ValidationError")
     ELSE IF j \notin DOMAIN jobs
        THEN Respond(s, "jobAssign", "NotFound")
     ELSE IF jobs[j].status # "pending"
        THEN Respond(s, "jobAssign", "InvalidState")
     ELSE IF assignedTo \notin Users
        THEN Respond(s, "jobAssign", "NotFound")
     ELSE IF role(assignedTo) # assignedType
        THEN Respond(s, "jobAssign", "ValidationError")
     ELSE JobBeginSave(s, "jobAssign", caller, j,
            [jobs[j] EXCEPT !.status = "assigned",
                            !.contractor = IF assignedType = "contractor" THEN assignedTo ELSE @,
                            !.independentWorker = IF assignedType = "independent_worker"
                                                    THEN assignedTo ELSE @])

JobStatusInputs == JobStatuses \cup {"accepted"}
JobStatusCallers == {"c1", "c2"}

\* PUT /api/jobs/:id/status: the transition checks on the loaded status.
JobStatusRefusal(loaded, status) ==
  \/ loaded = "completed" /\ status # "cancelled"
  \/ loaded = "cancelled"

\* PUT /api/jobs/:id/status
JobStatusStart(s, caller, j, status) ==
  /\ Free(s)
  /\ UNCHANGED <<wallet, txns, nextTxnId, bookings, nextBookingId, workerContractor, clock,
                 ratingVars, sideVars>>
  /\ IF status \notin JobStatuses
        THEN Respond(s, "jobStatus", "ValidationError")
     ELSE IF j \notin DOMAIN jobs
        THEN Respond(s, "jobStatus", "NotFound")
     ELSE IF /\ caller \notin {jobs[j].customer, jobs[j].contractor, jobs[j].worker,
                               jobs[j].independentWorker}
             /\ role(caller) # "admin"
        THEN Respond(s, "jobStatus", "Forbidden")
     ELSE IF JobStatusRefusal(jobs[j].status, status)
        THEN Respond(s, "jobStatus", "InvalidState")
     ELSE JobBeginSave(s, "jobStatus", caller, j,
            [jobs[j] EXCEPT !.status = status,
                            !.completedDate = IF status = "completed" THEN clock ELSE @])

FinalPriceInputs == {-10, 0, 200}
JobRatingInputs == {4, 6}
CompleteCallers == {"c1", "c2", "k1"}

\* PUT /api/jobs/:id/complete
JobCompleteStart(s, caller, j, finalPrice, rating) ==
  /\ Free(s)
  /\ UNCHANGED <<wallet, txns, nextTxnId, bookings, nextBookingId, workerContractor, clock,
                 ratingVars, sideVars>>
  /\ IF role(caller) # "customer"
        THEN Respond(s, "jobComplete", "Forbidden")
     ELSE IF j \notin DOMAIN jobs
        THEN Respond(s, "jobComplete", "NotFound")
     ELSE IF jobs[j].customer # caller
        THEN Respond(s, "jobComplete", "Forbidden")
     ELSE IF jobs[j].status # "in_progress"
        THEN Respond(s, "jobComplete", "InvalidState")
     ELSE IF finalPrice # 0 /\ finalPrice <= 0
        THEN Respond(s, "jobComplete", "ValidationError")
     ELSE IF rating # 0 /\ (rating < 1 \/ rating > 5)
        THEN Respond(s, "jobComplete", "ValidationError")
     ELSE JobBeginSave(s, "jobComplete", caller, j,
            [jobs[j] EXCEPT !.status = "completed", !.completedDate = clock,
                            !.finalPrice = IF finalPrice # 0 THEN finalPrice
                                           ELSE jobs[j].estimatedPrice,
                            !.rating = rating, !.paymentStatus = "pending"])

NextJobs ==
  \/ \E s \in Slots, caller \in JobCustomers, price \in EstimatedPriceInputs :
        JobCreate(s, caller, price)
  \/ \E s \in Slots, caller \in AssignCallers, j \in JobIds, assignedTo \in AssignToInputs,
        assignedType \in AssignTypeInputs :
        JobAssignStart(s, caller, j, assignedTo, assignedType)
  \/ \E s \in Slots, caller \in JobStatusCallers, j \in JobIds, status \in JobStatusInputs :
        JobStatusStart(s, caller, j, status)
  \/ \E s \in Slots, caller \in CompleteCallers, j \in JobIds, finalPrice \in FinalPriceInputs,
        rating \in JobRatingInputs :
        JobCompleteStart(s, caller, j, finalPrice, rating)
  \/ \E s \in Slots : JobSave(s)

SpecJobs == Init /\ [][NextJobs]_vars

(***************************************************************************)
(* POST /api/auth/setup-admin (routes/auth.js), a public route: the        *)
(* handler looks for a user with role admin, then for a user with the      *)
(* email of the body, then saves the new admin.  The User schema requires  *)
(* the phone and has a unique index on it; the email has no unique index.  *)
(* Phone "" is an absent phone.  No user of Users is an admin, so the      *)
(* admins are the users that setup-admin has created.                      *)
(***************************************************************************)
\* Phone and email of users that registered before.
ExistingPhones == {"p0"}
ExistingEmails == {"e0"}
SetupPhoneInputs == {"", "p0", "p1", "p2"}
SetupEmailInputs == {"e0", "e1", "e2"}

\* const existingAdmin = await User.findOne({ role: 'admin' })
SetupStart(s, phone, email) ==
  /\ Free(s)
  /\ UNCHANGED <<wallet, txns, nextTxnId, bookings, nextBookingId, workerContractor, clock,
                 ratingVars, sideVars>>
  /\ IF Len(adminUsers) > 0
        THEN Respond(s, "setupAdmin", "AdminExists")
     ELSE /\ req' = [req EXCEPT ![s] = [Idle EXCEPT !.pc = "sa_email", !.op = "setupAdmin",
                         !.phone = phone, !.email = email]]
          /\ UNCHANGED resp

\* const existingUser = await User.findOne({ email })
SetupCheckEmail(s) ==
  LET r == req[s]
  IN /\ r.pc = "sa_email"
     /\ UNCHANGED <<wallet, txns, nextTxnId, bookings, nextBookingId, workerContractor, clock,
                    ratingVars, sideVars>>
     /\ IF r.email \in ExistingEmails
            \/ \E i \in 1..Len(adminUsers) : adminUsers[i].email = r.email
          THEN Respond(s, r.op, "EmailExists")
        ELSE /\ req' = [req EXCEPT ![s].pc = "sa_save"]
             /\ UNCHANGED resp

\* await adminUser.save(): validation, then the insert under the unique index
\* on phone.
SetupSave(s) ==
  LET r == req[s]
  IN /\ r.pc = "sa_save"
     /\ UNCHANGED <<wallet, txns, nextTxnId, bookings, nextBookingId, workerContractor, clock,
                    ratingVars, jobs, nextJobId, listing>>
     /\ IF r.phone = ""
          THEN /\ Respond(s, r.op, "ServerError")
               /\ UNCHANGED adminUsers
        ELSE IF r.phone \in ExistingPhones
                  \/ \E i \in 1..Len(adminUsers) : adminUsers[i].phone = r.phone
          THEN /\ Respond(s, r.op, "ServerError")
               /\ UNCHANGED adminUsers
        ELSE /\ adminUsers' = Append(adminUsers, [phone |-> r.phone, email |-> r.email])
             /\ Respond(s, r.op, "ok")

NextSetup ==
  \/ \E s \in Slots, phone \in SetupPhoneInputs, email \in SetupEmailInputs :
        SetupStart(s, phone, email)
  \/ \E s \in Slots : SetupCheckEmail(s)
  \/ \E s \in Slots : SetupSave(s)

SpecSetup == Init /\ [][NextSetup]_vars

(***************************************************************************)
(* Booking.getCustomerBookings and Booking.getWorkerBookings               *)
(* (models/Booking.js): find(query).sort({createdAt: -1})                  *)
(* .limit(limit * page).skip((page - 1) * limit), then countDocuments.     *)
(* The query skips first and limits afterwards, whatever the order of the  *)
(* two calls in the chain.  Bookings are created in the order of their     *)
(* ids, so the newest booking has the greatest id.                         *)
(***************************************************************************)
MaxListed == 3
ListedCustomers == {"c1", "c2"}
ListedWorkers == {"w1", "w2"}
PageInputs == {1, 2, 3}
LimitInputs == {1, 2}

\* The collections of up to MaxListed pending bookings of the listed
\* customers with the listed workers.
ListedCollections ==
  UNION {[1..n -> {NewBooking(c, w, workerContractor[w], "pending", 0, FALSE, 0) :
                      c \in ListedCustomers, w \in ListedWorkers}] : n \in 0..MaxListed}

InitPages ==
  /\ wallet = [u \in Users |-> 0]
  /\ txns = <<>>
  /\ nextTxnId = 1
  /\ workerContractor = [w \in Workers |-> IF w = "w1" THEN "k1" ELSE NoUser]
  /\ bookings \in ListedCollections
  /\ nextBookingId = Len(bookings) + 1
  /\ clock = 1
  /\ req = [s \in Slots |-> Idle]
  /\ resp = "none"
  /\ ratings = <<>>
  /\ averageRating = [u \in Users |-> 0]
  /\ totalRatings = [u \in Users |-> 0]
  /\ jobs = <<>>
  /\ nextJobId = 1
  /\ adminUsers = <<>>
  /\ listing = NoListing

RECURSIVE SortedMatching(_, _, _)
\* find(query).sort({createdAt: -1}): the ids up to n of the bookings whose
\* field is the user, newest first.
SortedMatching(field, user, n) ==
  IF n = 0 THEN <<>>
  ELSE (IF n \in DOMAIN bookings /\ bookings[n][field] = user THEN <<n>> ELSE <<>>)
         \o SortedMatching(field, user, n - 1)

\* .limit(limit * page).skip((page - 1) * limit) applied to the sorted result.
SkipLimit(sorted, page, limit) ==
  LET first == (page - 1) * limit + 1
      last == IF Len(sorted) < (page - 1) * limit + limit * page
                THEN Len(sorted) ELSE (page - 1) * limit + limit * page
  IN SubSeq(sorted, first, last)

\* The body shared by the two statics: the page and the pagination record.
Paginate(op, field, user, page, limit) ==
  LET sorted == SortedMatching(field, user, nextBookingId - 1)
  IN /\ listing' = [op |-> op, user |-> user, page |-> page, limit |-> limit,
                     ids |-> SkipLimit(sorted, page, limit),
                     total |-> Len(sorted)]
     /\ UNCHANGED <<wallet, txns, nextTxnId, bookings, nextBookingId, workerContractor, clock,
                    req, resp, ratingVars, jobs, nextJobId, adminUsers>>

getCustomerBookings(customerId, page, limit) ==
  Paginate("getCustomerBookings", "customerId", customerId, page, limit)

getWorkerBookings(workerId, page, limit) ==
  Paginate("getWorkerBookings", "workerId", workerId, page, limit)

NextPages ==
  \/ \E c \in ListedCustomers, page \in PageInputs, limit \in LimitInputs :
        getCustomerBookings(c, page, limit)
  \/ \E w \in ListedWorkers, page \in PageInputs, limit \in LimitInputs :
        getWorkerBookings(w, page, limit)

SpecPages == InitPages /\ [][NextPages]_vars

(***************************************************************************)
(* The whole system.                                                       *)
(***************************************************************************)
Next ==
  NextLedger \/ NextBooking \/ NextRating \/ NextWalletBooking \/ NextContractor
    \/ NextOperations \/ NextEdit \/ NextSetup \/ NextJobs \/ NextRejects \/ NextPages

Spec == Init /\ [][Next]_vars

(***************************************************************************)
(* Ledger properties.                                                      *)
(***************************************************************************)
RECURSIVE SignedSum(_, _)
\* Credits minus debits of the rows of account u among the first n rows of the log.
SignedSum(u, n) ==
  IF n = 0 THEN 0
  ELSE SignedSum(u, n - 1)
         + (IF txns[n].userId # u THEN 0
            ELSE IF txns[n].type \in CreditTypes THEN txns[n].amount
            ELSE 0 - txns[n].amount)

RowsOf(u) == {i \in 1..Len(txns) : txns[i].userId = u /\ txns[i].status = "completed"}

\* The most recently created completed row of account u (ids follow creation order).
LatestRow(u) == CHOOSE i \in RowsOf(u) : \A j \in RowsOf(u) : txns[j].id <= txns[i].id

\* Slot s takes the step that writes the balance (user.save() inside createTransaction).
WritesBalance(s) == req[s].pc = "ct_user_save" /\ req'[s].pc = "ct_txn_save"

\* C1: concurrent postings against one account serialize: a posting writes its
\* result only over the balance it was computed from, so no update is lost.
C1_PostingsSerialize ==
  [][\A s \in Slots :
       WritesBalance(s) => wallet[req[s].caller] = req[s].balanceBefore]_vars

\* C2: the balance update and the Transaction row of a posting are one atomic
\* unit: in every state each balance is exactly the credits minus the debits of
\* the persisted rows of that account.
C2_BalanceAndRowAtomic ==
  \A u \in Users : wallet[u] = SignedSum(u, Len(txns))

\* C3: for every account with a completed transaction, the balance equals the
\* balanceAfter of its most recently created completed transaction.
C3_BalanceIsLatestBalanceAfter ==
  \A u \in Users : RowsOf(u) # {} => wallet[u] = txns[LatestRow(u)].balanceAfter

\* Slot s leaves position pc in this step.
Leaves(s, pc) == req[s].pc = pc /\ req'[s].pc # pc

\* The steps of a debit posting of amount a that reads balance b: if a > b it
\* fails with InsufficientBalance, writing no row and leaving the balance; if
\* a <= b the balance becomes b - a and the posting succeeds, the row recording
\* b and b - a (validOnly: this last part for rows valid under the schema only).
\* Every request answered with InsufficientBalance leaves balances, rows and
\* bookings as they were.
DebitRule(validOnly) ==
  /\ \A s \in Slots :
       LET r == req[s]
           b == wallet[r.caller]
       IN r.type \in DebitTypes =>
            /\ Leaves(s, "ct_read") =>
                 IF r.amount > b
                   THEN /\ resp' = "InsufficientBalance"
                        /\ req'[s].pc = "idle"
                        /\ wallet' = wallet /\ txns' = txns
                   ELSE /\ req'[s].pc = "ct_user_save"
                        /\ req'[s].balanceBefore = b
                        /\ req'[s].balanceAfter = b - r.amount
            /\ Leaves(s, "ct_user_save") =>
                 /\ wallet'[r.caller] = r.balanceBefore - r.amount
                 /\ req'[s].pc = "ct_txn_save"
            /\ (Leaves(s, "ct_txn_save") /\ (validOnly => TxnValid(TxnRow(r)))) =>
                 /\ Len(txns') = Len(txns) + 1
                 /\ txns'[Len(txns')].amount = r.amount
                 /\ txns'[Len(txns')].balanceAfter = r.balanceBefore - r.amount
                 /\ req'[s].pc = "bk_save" \/ resp' = "ok"
  /\ (resp' # resp /\ resp' = "InsufficientBalance") =>
       wallet' = wallet /\ txns' = txns /\ bookings' = bookings

\* C4 as stated: a debit posting of amount a against balance b fails with
\* InsufficientBalance and no write if a > b, and succeeds leaving b - a if
\* a <= b.
C4_DebitSucceedsIffCovered == [][DebitRule(FALSE)]_vars

\* C4 for schema-valid rows: as stated, the success of a posting with a <= b claimed
\* only when its Transaction row is valid under the schema.
C4_DebitAgainstBalance == [][DebitRule(TRUE)]_vars

\* C4 witness: a payment of 500 was posted from balance 500 leaving 0, and the
\* payment requested after it has failed with InsufficientBalance, leaving 0.
C4_Witness ==
  /\ resp = "InsufficientBalance"
  /\ wallet["c1"] = 0
  /\ Len(txns) = 2
  /\ txns[2].type = "payment" /\ txns[2].amount = 500
  /\ txns[2].balanceBefore = 500 /\ txns[2].balanceAfter = 0
  /\ \E b \in DOMAIN bookings : bookings[b].walletTransactionId = txns[2].id

\* C5: every wallet balance is greater than or equal to zero.
C5_BalanceNonNegative ==
  \A u \in Users : wallet[u] >= 0

\* C5 witness: two debits that raced on one read balance have both been posted.
C5_Witness ==
  \E i, j \in 1..Len(txns) :
    /\ i # j
    /\ txns[i].userId = txns[j].userId
    /\ txns[i].type \in DebitTypes /\ txns[j].type \in DebitTypes
    /\ txns[i].balanceBefore = txns[j].balanceBefore
    /\ wallet[txns[i].userId] = 0
    /\ \A s \in Slots : req[s].pc = "idle"

\* C10: wallet-paid booking creation is all-or-nothing: every persisted payment
\* row belongs to a persisted booking that references it, or to a creation
\* request that has not ended yet.
C10_WalletBookingAllOrNothing ==
  \A i \in 1..Len(txns) :
    txns[i].type = "payment" =>
      \/ \E b \in DOMAIN bookings : bookings[b].walletTransactionId = txns[i].id
      \/ \E s \in Slots : req[s].pc = "bk_save" /\ req[s].txnId = txns[i].id

(***************************************************************************)
(* Booking lifecycle properties.                                           *)
(***************************************************************************)
\* The adjacency list of the booking state machine.
Adjacency ==
  {<<"pending", "accepted">>, <<"pending", "rejected">>,
   <<"accepted", "confirmed">>, <<"accepted", "in_progress">>, <<"accepted", "cancelled">>,
   <<"confirmed", "in_progress">>, <<"confirmed", "cancelled">>,
   <<"in_progress", "completed">>, <<"in_progress", "cancelled">>,
   <<"completed", "cancelled">>}

\* Slot s takes the step that saves a loaded booking (booking.save()).
SavesDoc(s) == req[s].pc = "doc_save" /\ req'[s].pc # "doc_save"

\* C6: every change of a booking's status goes along the adjacency list (so
\* none goes from pending to completed), and every booking is created pending.
C6_StatusFollowsAdjacency ==
  [][\A b \in DOMAIN bookings' :
       IF b \in DOMAIN bookings
         THEN bookings'[b].status # bookings[b].status =>
                <<bookings[b].status, bookings'[b].status>> \in Adjacency
         ELSE bookings'[b].status = "pending"]_vars

\* C7: accept and reject invoked on a booking that is not pending leave the
\* booking, its status and its timestamps, unchanged.
C7_AcceptRejectOnlyFromPending ==
  [][\A s \in Slots :
       (SavesDoc(s) /\ req[s].op \in {"accept", "reject"}
          /\ req[s].doc.status # "pending") => bookings' = bookings]_vars

\* C8: customer cancel goes on to write only for a booking it found pending,
\* accepted or confirmed, and a cancel refused as InvalidTransition leaves the
\* bookings unchanged.
C8_CancelOnlyFromOpenStates ==
  [][/\ \A s \in Slots :
          (SavesDoc(s) /\ req[s].op = "cancel") =>
             req[s].doc.status \in {"pending", "accepted", "confirmed"}
     /\ (resp' # resp /\ resp' = "InvalidTransition") => bookings' = bookings
    ]_vars

\* C9: a status-changing request overwrites the stored status only if it is
\* still the status the request read and validated.
C9_StatusCompareAndSet ==
  [][\A s \in Slots :
       (SavesDoc(s) /\ req[s].bid \in DOMAIN bookings
          /\ bookings'[req[s].bid].status # bookings[req[s].bid].status) =>
             bookings[req[s].bid].status = req[s].doc.status]_vars

\* The transition timestamps of a booking.
Timestamps ==
  {"acceptedAt", "confirmedAt", "startedAt", "completedAt", "cancelledAt", "rejectedAt"}

\* C19: a transition timestamp that has been set is never changed by a later
\* operation; a repeated accept leaves acceptedAt at the first accept's value.
C19_TimestampsSetOnce ==
  [][\A b \in DOMAIN bookings : \A f \in Timestamps :
       bookings[b][f] # 0 => bookings'[b][f] = bookings[b][f]]_vars

\* C20: a booking goes from pending to accepted or rejected only by a request
\* of the contractor equal to its contractorId or of its assigned worker, and a
\* request refused as Forbidden leaves the bookings unchanged.
C20_OnlyOwnerAcceptsOrRejects ==
  [][/\ \A s \in Slots :
          (/\ SavesDoc(s)
           /\ req[s].bid \in DOMAIN bookings
           /\ bookings[req[s].bid].status = "pending"
           /\ bookings'[req[s].bid].status \in {"accepted", "rejected"}) =>
             req[s].caller \in {bookings[req[s].bid].contractorId,
                                bookings[req[s].bid].workerId}
     /\ (resp' # resp /\ resp' = "Forbidden") => bookings' = bookings
    ]_vars

(***************************************************************************)
(* Wallet-paid booking properties.                                         *)
(***************************************************************************)
\* The payment rows that booking d refers to: rows of type payment on the
\* customer's account whose id is the booking's walletTransactionId and whose
\* amount is the booking's budget.
PaymentsOf(d) ==
  {i \in 1..Len(txns) :
     /\ txns[i].id = d.walletTransactionId
     /\ txns[i].type = "payment"
     /\ txns[i].userId = d.customerId
     /\ txns[i].amount = d.budget}

\* C11: every booking with useWallet = true and budget > 0 has a
\* walletTransactionId that refers to exactly one payment row of the customer
\* whose amount equals the booking's budget.
C11_WalletBookingHasOnePayment ==
  \A b \in DOMAIN bookings :
    (bookings[b].useWallet /\ bookings[b].budget > 0) =>
      Cardinality(PaymentsOf(bookings[b])) = 1

\* The responses that reject a booking creation for a reason named by C12.
CreateRejections == {"ValidationError", "Forbidden", "NotFound", "InsufficientBalance"}

\* C12: a booking creation that is rejected (missing field, useWallet without a
\* positive budget, caller not the customer, unknown or unapproved worker,
\* insufficient balance) has constructed no transaction, and the step that
\* rejects it leaves balances, rows and bookings unchanged.
C12_RejectedCreateWritesNothing ==
  [][/\ \A s \in Slots :
          (req[s].op = "create" /\ req'[s].pc = "idle" /\ resp' \in CreateRejections) =>
             /\ req[s].pc = "ct_read" /\ req[s].txnId = 0
             /\ wallet' = wallet /\ txns' = txns /\ bookings' = bookings
     /\ (resp' \in CreateRejections /\ resp' # resp) =>
          wallet' = wallet /\ txns' = txns /\ bookings' = bookings
    ]_vars

\* C12 witness: a creation naming an unknown worker has been rejected while the
\* customer held a balance of 500: no booking, no payment row, balance 500.
C12_Witness ==
  /\ resp = "NotFound"
  /\ wallet["c1"] = 500
  /\ DOMAIN bookings = {}
  /\ Len(txns) = 1 /\ txns[1].type = "recharge"
  /\ \A s \in Slots : req[s].pc = "idle"

(***************************************************************************)
(* Rating properties.                                                      *)
(***************************************************************************)
\* C13: at most one Rating is persisted per bookingId, whatever the
\* interleaving of the submissions.
C13_OneRatingPerBooking ==
  \A i, j \in 1..Len(ratings) :
    ratings[i].bookingId = ratings[j].bookingId => i = j

\* C13 witness: a submission that had passed the existence pre-check computed
\* the aggregate over the Rating another submission had inserted meanwhile, and
\* its own insert has been refused by the unique index: one Rating is stored.
C13_Witness ==
  /\ resp = "DuplicateRating"
  /\ Len(ratings) = 1
  /\ totalRatings[ratings[1].workerId] = 1
  /\ \A s \in Slots : req[s].pc = "idle"

\* Slot s, a rating submission, ends in this step.
RatingEnds(s) == req[s].op = "rate" /\ req'[s].pc = "idle"

RECURSIVE SumOf(_, _, _)
\* The sum of the ratings of worker w among the first k rows of rs.
SumOf(rs, w, k) ==
  IF k = 0 THEN 0
  ELSE SumOf(rs, w, k - 1) + (IF rs[k].workerId = w THEN rs[k].rating ELSE 0)

\* The number of rows of worker w in rs.
CountOf(rs, w) == Cardinality({i \in 1..Len(rs) : rs[i].workerId = w})

\* The rating fields avg (in tenths) and tot of worker w are the aggregate over
\* the rows of w in rs: their number and their mean rounded to one decimal.
AggregateCurrent(rs, avg, tot, w) ==
  /\ tot[w] = CountOf(rs, w)
  /\ CountOf(rs, w) > 0 =>
       /\ 10 * avg[w] * CountOf(rs, w) - 5 * CountOf(rs, w) <= 100 * SumOf(rs, w, Len(rs))
       /\ 100 * SumOf(rs, w, Len(rs)) < 10 * avg[w] * CountOf(rs, w) + 5 * CountOf(rs, w)

\* C14: after every successful rating submission (here: even one whose hook
\* met no failure) the worker's totalRatings is the number of Rating rows of
\* the worker and averageRating their mean rounded to one decimal, both
\* counting the rating just submitted.
C14_AggregateCountsNewRating ==
  [][\A s \in Slots :
       (RatingEnds(s) /\ resp' = "ok" /\ ~req[s].hookError) =>
          AggregateCurrent(ratings', averageRating', totalRatings', req[s].worker)]_vars

\* C15: a rating submission is one atomic unit: when it ends with success the
\* Rating is persisted, the aggregate is recomputed, the booking has hasRated
\* and no failure of the aggregate or flag update was met; when it ends with a
\* failure it has persisted no Rating and changed neither aggregate nor flag.
C15_RatingSubmissionAtomic ==
  [][\A s \in Slots :
       RatingEnds(s) =>
         IF resp' = "ok"
           THEN /\ \E i \in 1..Len(ratings') : ratings'[i].bookingId = req[s].bid
                /\ AggregateCurrent(ratings', averageRating', totalRatings', req[s].worker)
                /\ bookings'[req[s].bid].hasRated
                /\ ~req[s].hookError
           ELSE /\ ratings' = ratings
                /\ req[s].wrote = {}]_vars

\* C16: a submission for a booking that already has a Rating fails with
\* DuplicateRating, whether stopped by the pre-check or by the unique index,
\* persists no Rating and has left the worker's averageRating and totalRatings
\* as they were.
C16_DuplicateLeavesAggregate ==
  [][\A s \in Slots :
       /\ (RatingEnds(s) /\ req[s].pc \in {"rt_check", "rt_insert"} /\ DuplicateKey(req[s].bid)) =>
            resp' = "DuplicateRating"
       /\ (RatingEnds(s) /\ resp' = "DuplicateRating") =>
            /\ ratings' = ratings
            /\ averageRating' = averageRating /\ totalRatings' = totalRatings
            /\ "aggregate" \notin req[s].wrote]_vars

C18_HasRatedOnlyAfterCompleted ==
  [][\A b \in DOMAIN bookings' :
       IF b \in DOMAIN bookings
         THEN /\ (~bookings[b].hasRated /\ bookings'[b].hasRated) =>
                   bookings[b].status = "completed"
              /\ bookings[b].hasRated => bookings'[b].hasRated
         ELSE ~bookings'[b].hasRated]_vars

(***************************************************************************)
(* Deletion and contractor resolution properties.                          *)
(***************************************************************************)
\* C21: a booking is removed only in a step in which its stored status is
\* pending, rejected or cancelled, whatever has happened since the delete
\* request read it.
C21_DeletedOnlyWhenDeletable ==
  [][\A b \in DOMAIN bookings \ DOMAIN bookings' :
       bookings[b].status \in {"pending", "rejected", "cancelled"}]_vars

\* The rule of C22 for booking b inserted in this step: the contractor of its
\* worker if the worker has one; otherwise, for a worker of role 'worker', the
\* first contractor, which also becomes the worker's contractor; otherwise null.
ResolutionRule(b) ==
  LET w == bookings'[b].workerId
  IN IF workerContractor[w] # NoUser
       THEN bookings'[b].contractorId = workerContractor[w]
     ELSE IF role(w) = "worker"
       THEN /\ bookings'[b].contractorId = FirstContractor
            /\ workerContractor'[w] = FirstContractor
     ELSE bookings'[b].contractorId = NoUser

\* C22: the contractorId of every booking that is created follows the
\* resolution rule; in particular it is null for an independent worker.
C22_ContractorResolved ==
  [][\A b \in DOMAIN bookings' \ DOMAIN bookings : ResolutionRule(b)]_vars

\* C22, for the creations whose request body carries no contractorId: the
\* booking inserted follows the resolution rule.
C22_ResolvedWithoutBodyContractor ==
  [][\A s \in Slots :
       (req[s].pc = "bk_save" /\ (req[s].op = "create" \/ req[s].contractor = NoUser)) =>
          \A b \in DOMAIN bookings' \ DOMAIN bookings : ResolutionRule(b)]_vars

\* C22 witness: a booking for the worker of role 'worker' that had no
\* contractor has been created with the first contractor, which is now the
\* worker's contractor.
C22_Witness ==
  \E b \in DOMAIN bookings :
    /\ bookings[b].workerId = "w3"
    /\ bookings[b].contractorId = FirstContractor
    /\ workerContractor["w3"] = FirstContractor

\* C23: a booking that is created has a contractorId if and only if its
\* worker belongs to a contractor once the creation is done.
C23_ContractorIffWorkerHasOne ==
  [][\A b \in DOMAIN bookings' \ DOMAIN bookings :
       (bookings'[b].contractorId # NoUser)
         <=> (workerContractor'[bookings'[b].workerId] # NoUser)]_vars

(***************************************************************************)
(* Ledger frame and row properties.                                        *)
(***************************************************************************)
\* The operations that are not ledger postings.
NonLedgerOps == {"accept", "reject", "status", "cancel", "edit", "delete", "rate"}

\* C24: every step of an accept, reject, status update, cancel, edit, delete
\* or rating submission leaves all balances and the transaction log unchanged,
\* and a balance or the log changes only in a step of a posting (user.save()
\* or transaction.save() of createTransaction).
C24_OnlyPostingsTouchLedger ==
  [][/\ \A s \in Slots :
          ((req[s].op \in NonLedgerOps \/ req'[s].op \in NonLedgerOps) /\ req'[s] # req[s]) =>
             wallet' = wallet /\ txns' = txns
     /\ (wallet' # wallet \/ txns' # txns) =>
          \E s \in Slots : /\ req[s].pc \in {"ct_user_save", "ct_txn_save"}
                           /\ req[s].op \in {"recharge", "withdraw", "create"}
                           /\ req'[s] # req[s]
    ]_vars

\* C24 witness: the customer holds 500 from one recharge, and the booking has
\* been accepted, edited to budget 500 and cancelled: balance and log are as
\* the recharge left them.
C24_Witness ==
  /\ wallet["c1"] = 500
  /\ Len(txns) = 1 /\ txns[1].type = "recharge"
  /\ \E b \in DOMAIN bookings :
       /\ bookings[b].status = "cancelled"
       /\ bookings[b].acceptedAt # 0
       /\ bookings[b].budget = 500
  /\ \A s \in Slots : req[s].pc = "idle"

\* C25: no row with amount <= 0 is persisted, no request with amount <= 0 gets
\* past the route into createTransaction, and a balance changes only by the
\* user.save() of a posting with a positive amount.
C25_NonPositivePostingRejected ==
  [][/\ \A i \in 1..Len(txns') : txns'[i].amount > 0
     /\ \A s \in Slots :
          req'[s].pc \in {"ct_read", "ct_user_save", "ct_txn_save"} => req'[s].amount > 0
     /\ wallet' # wallet =>
          \E s \in Slots : req[s].pc = "ct_user_save" /\ req[s].amount > 0
    ]_vars

\* C25 witness: after a recharge of 500 took effect, a request has been
\* rejected as invalid; the balance is 500 and the log holds the one row.
C25_Witness ==
  /\ resp = "ValidationError"
  /\ wallet["c1"] = 500
  /\ Len(txns) = 1 /\ txns[1].amount = 500
  /\ \A s \in Slots : req[s].pc = "idle"

\* C26: every row has balanceAfter = balanceBefore + amount for recharge,
\* earning and refund and balanceBefore - amount for withdraw and payment; the
\* user.save() of a posting writes the posting's balanceAfter to the account,
\* and the row then appended carries that same balanceAfter.
C26_RowArithmetic ==
  [][/\ \A i \in 1..Len(txns') :
          IF txns'[i].type \in {"recharge", "earning", "refund"}
            THEN txns'[i].balanceAfter = txns'[i].balanceBefore + txns'[i].amount
            ELSE /\ txns'[i].type \in {"withdraw", "payment"}
                 /\ txns'[i].balanceAfter = txns'[i].balanceBefore - txns'[i].amount
     /\ \A s \in Slots :
          (req[s].pc = "ct_user_save" /\ req'[s] # req[s]) =>
             /\ wallet'[req[s].caller] = req[s].balanceAfter
             /\ req'[s].pc = "ct_txn_save"
             /\ req'[s].balanceAfter = req[s].balanceAfter
     /\ Len(txns') > Len(txns) =>
          \E s \in Slots :
             /\ req[s].pc = "ct_txn_save"
             /\ txns'[Len(txns')].id = req[s].txnId
             /\ txns'[Len(txns')].userId = req[s].caller
             /\ txns'[Len(txns')].balanceAfter = req[s].balanceAfter
    ]_vars

\* C26 witness: a recharge row and after it a debit row of the same account,
\* the balance being the debit row's balanceAfter.
C26_Witness ==
  /\ Len(txns) >= 2
  /\ txns[1].type = "recharge" /\ txns[1].balanceAfter = txns[1].balanceBefore + txns[1].amount
  /\ txns[2].type \in {"withdraw", "payment"}
  /\ txns[2].userId = txns[1].userId
  /\ txns[2].balanceAfter = txns[1].balanceAfter - txns[2].amount
  /\ wallet[txns[2].userId] = txns[2].balanceAfter

\* C27: the log only grows at its end: every row stored stays as it is.
C27_LogAppendOnly ==
  [][/\ Len(txns') >= Len(txns)
     /\ \A i \in 1..Len(txns) : txns'[i] = txns[i]]_vars

\* C27 witness: three rows have been appended one after the other.
C27_Witness ==
  /\ Len(txns) = 3
  /\ txns[1].id = 1 /\ txns[2].id = 2 /\ txns[3].id = 3
  /\ \A s \in Slots : req[s].pc = "idle"

(***************************************************************************)
(* Ownership of status updates and cancels.                                *)
(***************************************************************************)
\* C28: a status update goes on to save only when its caller is the booking's
\* workerId, a cancel only when its caller is the booking's customerId; the
\* save of either changes a booking only of that worker or customer; and a
\* request refused as Forbidden or NotFound leaves the bookings unchanged.
C28_OnlyOwnerUpdatesOrCancels ==
  [][/\ \A s \in Slots :
          (req[s].pc = "idle" /\ req'[s].pc = "doc_save") =>
             /\ req'[s].op = "status" => bookings[req'[s].bid].workerId = req'[s].caller
             /\ req'[s].op = "cancel" => bookings[req'[s].bid].customerId = req'[s].caller
     /\ \A s \in Slots :
          (SavesDoc(s) /\ bookings' # bookings) =>
             /\ req[s].op = "status" => bookings[req[s].bid].workerId = req[s].caller
             /\ req[s].op = "cancel" => bookings[req[s].bid].customerId = req[s].caller
     /\ (resp' # resp /\ resp' \in {"Forbidden", "NotFound"}) => bookings' = bookings
    ]_vars

\* C28 witness: while a booking stands confirmed, which only a status update
\* of its worker brings about, a request has been refused as Forbidden.
C28_Witness ==
  /\ resp = "Forbidden"
  /\ \E b \in DOMAIN bookings :
       bookings[b].status = "confirmed" /\ bookings[b].confirmedAt # 0

(***************************************************************************)
(* Rating and creation properties.                                         *)
(***************************************************************************)
\* C29: the workerId of every Rating is the workerId of the booking it refers to.
C29_RatingWorkerIsBookingWorker ==
  \A i \in 1..Len(ratings) :
    ratings[i].bookingId \in DOMAIN bookings =>
      ratings[i].workerId = bookings[ratings[i].bookingId].workerId

\* C30: every booking, in the state right after its creation, has status
\* pending, every transition timestamp null and hasRated false.
C30_CreatedPendingUnrated ==
  [][\A b \in DOMAIN bookings' \ DOMAIN bookings :
       /\ bookings'[b].status = "pending"
       /\ \A f \in Timestamps : bookings'[b][f] = 0
       /\ ~bookings'[b].hasRated]_vars

(***************************************************************************)
(* Job properties.                                                         *)
(***************************************************************************)
\* C31: every completed job has a final price, and its commissionAmount is
\* that price multiplied by its commissionPercentage and divided by 100.
C31_CommissionOfCompletedJob ==
  \A j \in DOMAIN jobs :
    jobs[j].status = "completed" =>
      /\ jobs[j].finalPrice # NoPrice
      /\ jobs[j].commissionAmount * 100 = jobs[j].finalPrice * jobs[j].commissionPercentage

\* C31, for a save that sets a final price on a job loaded without a
\* commission: the stored commissionAmount is that price multiplied by
\* commissionPercentage and divided by 100.
C31_CommissionOnFirstPrice ==
  [][\A s \in Slots :
       (/\ req[s].pc = "job_save" /\ req'[s].pc = "idle"
        /\ req[s].assigned.finalPrice # NoPrice
        /\ req[s].doc.commissionAmount = 0) =>
          jobs'[req[s].bid].commissionAmount * 100 =
            jobs'[req[s].bid].finalPrice * jobs'[req[s].bid].commissionPercentage]_vars

\* C31 witness: a job completed by its customer with final price 200 carries
\* the commission 20.
C31_Witness ==
  \E j \in DOMAIN jobs :
    /\ jobs[j].status = "completed"
    /\ jobs[j].finalPrice = 200
    /\ jobs[j].commissionAmount = 20

\* C32: a cancelled job keeps its status, and a completed job stays completed
\* or becomes cancelled.
C32_TerminalJobStatuses ==
  [][\A j \in DOMAIN jobs :
       /\ jobs[j].status = "cancelled" => jobs'[j].status = "cancelled"
       /\ jobs[j].status = "completed" => jobs'[j].status \in {"completed", "cancelled"}]_vars

\* C32, for the status a request has read: a request goes on to save only if
\* the job it loaded was not cancelled and, unless it cancels, not completed.
C32_RefusedOnLoadedStatus ==
  [][\A s \in Slots :
       (req[s].pc = "idle" /\ req'[s].pc = "job_save") =>
          /\ jobs[req'[s].bid].status # "cancelled"
          /\ jobs[req'[s].bid].status = "completed" => req'[s].assigned.status = "cancelled"]_vars

(***************************************************************************)
(* Edit properties.                                                        *)
(***************************************************************************)
\* The fields of a booking that the customer's edit may not change.
EditProtected ==
  {"status", "customerId", "workerId", "contractorId", "useWallet",
   "walletTransactionId", "hasRated"} \cup Timestamps

\* C33: the save of an edit changes none of status, customerId, workerId,
\* contractorId, useWallet, walletTransactionId, hasRated and the transition
\* timestamps of any booking; an edit request that reads the booking as
\* completed, cancelled or in_progress does not go on to save, and the
\* arrival of an edit request writes nothing.
C33_EditFrame ==
  [][\A s \in Slots :
       /\ (SavesDoc(s) /\ req[s].op = "edit") =>
             /\ DOMAIN bookings' = DOMAIN bookings
             /\ \A b \in DOMAIN bookings : \A f \in EditProtected :
                   bookings'[b][f] = bookings[b][f]
       /\ (req[s].pc = "idle" /\ req'[s].pc = "doc_save" /\ req'[s].op = "edit") =>
             bookings[req'[s].bid].status \notin {"completed", "cancelled", "in_progress"}
       /\ (req[s].pc = "idle" /\ (req'[s].pc # "idle" \/ resp' = "InvalidState")) =>
             bookings' = bookings]_vars

\* C33 witness: an edit refused for its state while the booking is in
\* progress, after an earlier edit has changed the budget to 1.
C33_Witness ==
  /\ resp = "InvalidState"
  /\ \E b \in DOMAIN bookings :
       bookings[b].status = "in_progress" /\ bookings[b].budget = 1

(***************************************************************************)
(* Admin setup properties.                                                 *)
(***************************************************************************)
\* C34: setup-admin has created at most one admin user, and a setup-admin
\* request that arrives when an admin user exists creates none.
C34_AtMostOneAdmin ==
  Len(adminUsers) <= 1

\* C34, for the request that arrives when an admin user exists: it is
\* answered at the first check and never reaches the save, and only a request
\* at its save adds an admin user.
C34_RefusedWhenAdminExists ==
  [][/\ Len(adminUsers) > 0 =>
          \A s \in Slots : req[s].pc = "idle" => req'[s].pc = "idle"
     /\ adminUsers' # adminUsers =>
          \E s \in Slots : req[s].pc = "sa_save" /\ req'[s].pc = "idle"]_vars

(***************************************************************************)
(* Reject properties.                                                      *)
(***************************************************************************)
\* C35: the save of a reject that loaded the booking as pending leaves the
\* booking rejected, with rejectedAt the date of the request and
\* rejectedReason the reason of the request, or "No reason provided" when the
\* reason is empty, and leaves every other booking as it was.
C35_RejectEffect ==
  [][\A s \in Slots :
       (SavesDoc(s) /\ req[s].op = "reject" /\ req[s].doc.status = "pending") =>
          /\ DOMAIN bookings' = DOMAIN bookings
          /\ bookings'[req[s].bid].status = "rejected"
          /\ bookings'[req[s].bid].rejectedAt = req[s].stamp /\ req[s].stamp # 0
          /\ bookings'[req[s].bid].rejectedReason =
                (IF req[s].reason = "" THEN "No reason provided" ELSE req[s].reason)
          /\ \A b \in DOMAIN bookings \ {req[s].bid} : bookings'[b] = bookings[b]]_vars

\* C35 witness: one booking rejected without a reason, the other rejected
\* with the reason "busy".
C35_Witness ==
  /\ bookings[1].status = "rejected" /\ bookings[1].rejectedReason = "No reason provided"
  /\ bookings[1].rejectedAt # 0
  /\ bookings[2].status = "rejected" /\ bookings[2].rejectedReason = "busy"
  /\ resp = "ok"

(***************************************************************************)
(* Pagination properties.                                                  *)
(***************************************************************************)
\* The sorted matching bookings of the query that listing answers.
ListedMatching ==
  SortedMatching(IF listing.op = "getCustomerBookings" THEN "customerId" ELSE "workerId",
                 listing.user, nextBookingId - 1)

\* C36: the answer to a call with page p and limit L holds at most L
\* bookings, those at positions (p-1)*L+1 to p*L of the sorted matching
\* bookings.
C36_PageWindow ==
  listing.op # "none" =>
    /\ Len(listing.ids) <= listing.limit
    /\ listing.ids =
         SubSeq(ListedMatching, (listing.page - 1) * listing.limit + 1,
                IF Len(ListedMatching) < listing.page * listing.limit
                  THEN Len(ListedMatching) ELSE listing.page * listing.limit)

\* C36, for the first page: the answer holds the first L of the sorted
\* matching bookings, and total is the number of matching bookings.
C36_FirstPageWindow ==
  (listing.op # "none" /\ listing.page = 1) =>
    /\ Len(listing.ids) <= listing.limit
    /\ listing.ids =
         SubSeq(ListedMatching, 1,
                IF Len(ListedMatching) < listing.limit
                  THEN Len(ListedMatching) ELSE listing.limit)
    /\ listing.total = Len(ListedMatching)

====
